---- MODULE Spec2Model ----
(***************************************************************************)
(* Turn-based combat engine of the text adventure (game/combat.py).        *)
(*                                                                         *)
(* The model follows CombatSystem call by call.  A call is one action; it  *)
(* is computed by operators over a "machine" record m that carries every   *)
(* field the call can touch, in the order the Python code touches them.    *)
(* m.exc names the exception a call ends with ("none" when it returns);    *)
(* mutations made before the raise stay, as they do in Python.             *)
(*                                                                         *)
(* Multipliers the code keeps as floats with one decimal are kept here as  *)
(* integers in tenths (1.2 -> 12); int(x) of a non-negative x is \div.     *)
(* Random draws are existentially quantified inputs of the action.         *)
(***************************************************************************)
EXTENDS Integers, Sequences, FiniteSets, TLC

VARIABLES
    state,           \* CombatSystem.state
    turn_count,      \* CombatSystem.turn_count
    combat_log,      \* CombatSystem.combat_log (sequence of message tags)
    player,          \* the shared player record (a dict in the code)
    enemy,           \* CombatSystem.enemy (NoEnemy until start_combat)
    player_buffs,    \* CombatSystem.player_buffs
    player_debuffs,  \* CombatSystem.player_debuffs
    combat_system,   \* module global consulted by Enemy.process_status_effects
    call,            \* the last call made on the engine and how it ended
    sessions,        \* number of start_combat calls made so far
    enemy_calls,     \* direct process_enemy_turn calls made in this session
    enemy_turns,     \* enemy turns taken since start_combat
    trace,           \* the direct calls a component-level run has made
    quest_manager,   \* QuestManager: the quest objects and its three lists
    quest_call,      \* the last call made on the QuestManager, and counts
    world,           \* WorldGenerator.world: location id -> its exits
    world_pc         \* where generate_world stands

vars == <<state, turn_count, combat_log, player, enemy, player_buffs,
          player_debuffs, combat_system, call, sessions, enemy_calls,
          enemy_turns, trace, quest_manager, quest_call, world, world_pc>>

-----------------------------------------------------------------------------
(* Bounds of the exploration.                                              *)

MaxSessions == 1
MaxEnemyCalls == 1
MaxStatusCalls == 5
MaxAbilityCalls == 2
MaxAppends == 12
MaxVictoryCalls == 3
MaxSessionCalls == 4
MaxDamageCalls == 3
MaxQuestCalls == 8
MaxLocations == 3
MaxPlayerCalls == 3

-----------------------------------------------------------------------------
(* Program constants.                                                      *)

LogCapacity == 10
BaseHit == 85
DefaultDuration == 2
DefaultSpeed == 10
FleeBasePct == 30
FleePerSpeedPct == 5
FleeMinPct == 10
FleeMaxPct == 70

Max(a, b) == IF a >= b THEN a ELSE b
Min(a, b) == IF a <= b THEN a ELSE b

NoEnemy == [type |-> "none"]

-----------------------------------------------------------------------------
(* Catalogs.                                                               *)

\* The enemy types the exploration meets (a subset of setup_enemy_types).
\* resistances/weaknesses map a damage type to a multiplier in tenths.
EnemyTypeNames == {"goblin", "wolf", "orc", "skeleton", "troll"}

enemy_types ==
    [t \in EnemyTypeNames |->
        CASE t = "goblin" ->
               [name |-> "Goblin", level |-> 1, base_health |-> 25,
                base_damage |-> 5, base_defense |-> 3, speed |-> 12,
                xp_reward |-> 15, gold_min |-> 3, gold_max |-> 8,
                resistances |-> <<>>,
                weaknesses |-> <<[dtype |-> "physical", mult |-> 12]>>,
                attack_patterns |-> <<"basic", "basic", "dodge">>,
                loot_table |-> <<"goblin_ear", "rusty_dagger", "copper_coin">>]
          [] t = "wolf" ->
               [name |-> "Wolf", level |-> 2, base_health |-> 35,
                base_damage |-> 8, base_defense |-> 4, speed |-> 15,
                xp_reward |-> 25, gold_min |-> 5, gold_max |-> 12,
                resistances |-> <<>>,
                weaknesses |-> <<[dtype |-> "fire", mult |-> 12]>>,
                attack_patterns |-> <<"basic", "bite", "howl">>,
                loot_table |-> <<"wolf_pelt", "wolf_tooth", "raw_meat">>]
          [] t = "orc" ->
               [name |-> "Orc", level |-> 4, base_health |-> 65,
                base_damage |-> 15, base_defense |-> 10, speed |-> 8,
                xp_reward |-> 60, gold_min |-> 15, gold_max |-> 30,
                resistances |-> <<[dtype |-> "physical", mult |-> 8]>>,
                weaknesses |-> <<[dtype |-> "holy", mult |-> 13]>>,
                attack_patterns |-> <<"basic", "cleave", "charge", "berserk">>,
                loot_table |-> <<"orc_axe", "tusks", "coarse_fur">>]
          [] t = "skeleton" ->
               [name |-> "Skeleton Warrior", level |-> 4, base_health |-> 50,
                base_damage |-> 12, base_defense |-> 8, speed |-> 11,
                xp_reward |-> 55, gold_min |-> 10, gold_max |-> 20,
                resistances |-> <<[dtype |-> "physical", mult |-> 7],
                                  [dtype |-> "poison", mult |-> 0]>>,
                weaknesses |-> <<[dtype |-> "holy", mult |-> 20],
                                 [dtype |-> "bludgeoning", mult |-> 13]>>,
                attack_patterns |-> <<"basic", "slash", "shield_block",
                                      "bone_shield">>,
                loot_table |-> <<"bone_fragments", "rusted_sword", "skull">>]
          [] t = "troll" ->
               [name |-> "Troll", level |-> 7, base_health |-> 120,
                base_damage |-> 20, base_defense |-> 12, speed |-> 6,
                xp_reward |-> 120, gold_min |-> 30, gold_max |-> 60,
                resistances |-> <<[dtype |-> "physical", mult |-> 6],
                                  [dtype |-> "fire", mult |-> 5]>>,
                weaknesses |-> <<[dtype |-> "acid", mult |-> 15],
                                 [dtype |-> "fire", mult |-> 8]>>,
                attack_patterns |-> <<"club_smash", "basic", "regeneration", "rage">>,
                loot_table |-> <<"troll_hide", "giant_club", "troll_blood">>]]

\* An ability entry.  damage_mult and lifesteal are in tenths; "" stands for
\* an absent or None key; accuracy and duration carry the .get() defaults.
Ab(nm, dm, acc, eff, seff, dur, dt, ls) ==
    [name |-> nm, damage_mult |-> dm, accuracy |-> acc, effect |-> eff,
     self_effect |-> seff, duration |-> dur, damage_type |-> dt,
     lifesteal |-> ls]

AbilityNames ==
    {"scratch", "bite", "stab", "howl", "pack_tactics", "web", "poison",
     "cleave", "charge", "berserk", "shield_block", "bone_shield",
     "shadow_bolt", "life_drain", "curse", "regeneration", "rage",
     "fire_breath", "fear"}

abilities ==
    [a \in AbilityNames |->
        CASE a = "scratch"      -> Ab("Scratch", 8, 90, "", "", DefaultDuration, "physical", 0)
          [] a = "bite"         -> Ab("Bite", 12, 85, "bleed", "", DefaultDuration, "physical", 0)
          [] a = "stab"         -> Ab("Stab", 13, 80, "wound", "", DefaultDuration, "physical", 0)
          [] a = "howl"         -> Ab("Howl", 0, 100, "reduce_defense", "", 3, "physical", 0)
          [] a = "pack_tactics" -> Ab("Pack Tactics", 15, 90, "", "", DefaultDuration, "physical", 0)
          [] a = "web"          -> Ab("Web Shot", 5, 75, "slow", "", 2, "physical", 0)
          [] a = "poison"       -> Ab("Poison Bite", 9, 70, "poison", "", 4, "physical", 0)
          [] a = "cleave"       -> Ab("Cleave", 14, 80, "", "", DefaultDuration, "physical", 0)
          [] a = "charge"       -> Ab("Charge", 18, 70, "stun", "", 1, "physical", 0)
          [] a = "berserk"      -> Ab("Berserk", 13, 90, "", "increase_damage", 3, "physical", 0)
          [] a = "shield_block" -> Ab("Shield Block", 0, 100, "", "increase_defense", 2, "physical", 0)
          [] a = "bone_shield"  -> Ab("Bone Shield", 0, 100, "", "damage_shield", 3, "physical", 0)
          [] a = "shadow_bolt"  -> Ab("Shadow Bolt", 15, 85, "", "", DefaultDuration, "dark", 0)
          [] a = "life_drain"   -> Ab("Life Drain", 11, 80, "", "", DefaultDuration, "dark", 5)
          [] a = "curse"        -> Ab("Curse", 0, 70, "reduce_all", "", 3, "physical", 0)
          [] a = "regeneration" -> Ab("Regeneration", 0, 100, "", "heal_over_time", 3, "physical", 0)
          [] a = "rage"         -> Ab("Rage", 10, 100, "", "berserk_mode", 4, "physical", 0)
          [] a = "fire_breath"  -> Ab("Fire Breath", 20, 80, "burn", "", 3, "fire", 0)
          [] a = "fear"         -> Ab("Fearsome Presence", 0, 60, "fear", "", 2, "physical", 0)]

\* self.abilities.get(ability_name, self.abilities['scratch'])
AbilityOf(ability_name) ==
    IF ability_name \in AbilityNames THEN abilities[ability_name]
    ELSE abilities["scratch"]

\* A status-effect entry: on_turn is "damage", "skip" or "" (no 'on_turn'
\* key); has_on_end says whether the 'on_end' key is present (its value is
\* None wherever it is present).
StatusNames ==
    {"bleed", "poison", "burn", "slow", "stun", "fear", "wound", "bless",
     "fortify", "haste"}

status_effects ==
    [s \in StatusNames |->
        CASE s = "bleed"  -> [on_turn |-> "damage", amount |-> 5, dtype |-> "true",
                              has_on_end |-> TRUE, stack |-> TRUE, max_stacks |-> 3]
          [] s = "poison" -> [on_turn |-> "damage", amount |-> 4, dtype |-> "poison",
                              has_on_end |-> TRUE, stack |-> TRUE, max_stacks |-> 5]
          [] s = "burn"   -> [on_turn |-> "damage", amount |-> 8, dtype |-> "fire",
                              has_on_end |-> TRUE, stack |-> FALSE, max_stacks |-> 1]
          [] s = "stun"   -> [on_turn |-> "skip", amount |-> 0, dtype |-> "",
                              has_on_end |-> FALSE, stack |-> FALSE, max_stacks |-> 1]
          [] OTHER        -> [on_turn |-> "", amount |-> 0, dtype |-> "",
                              has_on_end |-> FALSE, stack |-> FALSE, max_stacks |-> 1]]

\* get_player_ability(name).get('mana_cost', 0)
PlayerAbilityNames ==
    {"power_attack", "quick_strike", "shield_bash", "healing_light", "fireball"}

ManaCost(ability_name) ==
    CASE ability_name = "power_attack"  -> 5
      [] ability_name = "quick_strike"  -> 3
      [] ability_name = "shield_bash"   -> 4
      [] ability_name = "healing_light" -> 10
      [] ability_name = "fireball"      -> 15
      [] OTHER                          -> 0

\* get_player_ability(ability_name): the entry of the player_abilities dict.
\* damage_mult is in tenths; accuracy and damage_type carry the defaults
\* use_ability reads an absent key with (85, 'physical'); "" stands for
\* an absent 'effect' and 0 for an absent 'heal'.
get_player_ability(ability_name) ==
    CASE ability_name = "power_attack" ->
           [damage_mult |-> 15, mana_cost |-> 5, accuracy |-> 75,
            effect |-> "", damage_type |-> "physical", heal |-> 0]
      [] ability_name = "quick_strike" ->
           [damage_mult |-> 8, mana_cost |-> 3, accuracy |-> 95,
            effect |-> "", damage_type |-> "physical", heal |-> 0]
      [] ability_name = "shield_bash" ->
           [damage_mult |-> 10, mana_cost |-> 4, accuracy |-> 80,
            effect |-> "stun", damage_type |-> "physical", heal |-> 0]
      [] ability_name = "healing_light" ->
           [damage_mult |-> 0, mana_cost |-> 10, accuracy |-> 85,
            effect |-> "", damage_type |-> "physical", heal |-> 25]
      [] ability_name = "fireball" ->
           [damage_mult |-> 18, mana_cost |-> 15, accuracy |-> 70,
            effect |-> "", damage_type |-> "fire", heal |-> 0]
      [] OTHER ->
           [damage_mult |-> 10, mana_cost |-> 0, accuracy |-> 85,
            effect |-> "", damage_type |-> "physical", heal |-> 0]

\* get_item_effects(item_name): the effect list of an item.  damage_type is
\* what effect.get('damage_type') yields: a plain string or "" for None.
ItemEffects(item_name) ==
    CASE item_name = "health_potion" -> <<[type |-> "heal", amount |-> 30, damage_type |-> ""]>>
      [] item_name = "mana_potion"   -> <<[type |-> "mana", amount |-> 20, damage_type |-> ""]>>
      [] item_name = "bomb"          -> <<[type |-> "damage", amount |-> 25, damage_type |-> "fire"]>>
      [] item_name = "poison_dagger" -> <<[type |-> "damage", amount |-> 15, damage_type |-> ""],
                                          [type |-> "effect", amount |-> 0, damage_type |-> ""]>>
      [] OTHER                       -> <<>>

-----------------------------------------------------------------------------
(* The systems beside the combat engine, while a run does not use them.    *)

\* QuestManager.__init__: no quest objects yet, the three lists empty.
NoQuests ==
    [quests |-> <<>>, available_quests |-> <<>>, active_quests |-> <<>>,
     completed_quests |-> <<>>, failed_quests |-> <<>>, quest_log |-> <<>>,
     reputation |-> [townsfolk |-> 0, guild |-> 0]]

NoQuestCall == [op |-> "none", id |-> "", npc |-> "", ret |-> <<>>,
                turned |-> 0, n |-> 0, granted |-> <<>>]

\* WorldGenerator.__init__: an empty world, generate_world not yet called.
NoWorld == <<>>
NoWorldPc == [phase |-> "idle", loc |-> 0, visited |-> {}, exc |-> "none"]

OthersIdle ==
    /\ quest_manager = NoQuests
    /\ quest_call = NoQuestCall
    /\ world = NoWorld
    /\ world_pc = NoWorldPc

-----------------------------------------------------------------------------
(* Helpers over the machine record m.                                      *)

\* The transient record a call works on.
\*   res    the string the innermost method returned (its leading part)
\*   out    process_player_turn's result list
\*   exc    "none", or the exception the call ended with
\*   eturns the number of times process_enemy_turn was entered in this call
\*   eused  the abilities get_next_ability selected in this call
\*   kill   whether the enemy was dead right after the player's action
Machine ==
    [state |-> state, turn_count |-> turn_count, combat_log |-> combat_log,
     player |-> player, enemy |-> enemy, player_buffs |-> player_buffs,
     player_debuffs |-> player_debuffs, res |-> "", out |-> <<>>,
     exc |-> "none", eturns |-> 0, eused |-> <<>>, kill |-> FALSE]

Raise(m, e) == [m EXCEPT !.exc = e]

\* Sequencing: "x = v; return F(x)", with v computed once.
Bind(v, F(_)) == CHOOSE r \in {F(x) : x \in {v}} : TRUE

\* add_to_log that evicts the entry just appended instead of the oldest.
add_to_log_evicts_newest(m, message) ==
    LET appended == Append(m.combat_log, message)
    IN  [m EXCEPT !.combat_log =
            IF Len(appended) > LogCapacity
            THEN SubSeq(appended, 1, LogCapacity) ELSE appended]

\* add_to_log(message)
add_to_log(m, message) ==
    LET appended == Append(m.combat_log, message)
    IN  [m EXCEPT !.combat_log =
            IF Len(appended) > LogCapacity THEN Tail(appended) ELSE appended]

\* The members of the DamageType enum, by member name; .value is the
\* lower-case string.  A plain string or None is not a member.
DamageType == {"PHYSICAL", "FIRE", "ICE", "LIGHTNING", "POISON", "HOLY", "DARK", "TRUE"}

DamageTypeValue(member) ==
    CASE member = "PHYSICAL"  -> "physical"
      [] member = "FIRE"      -> "fire"
      [] member = "ICE"       -> "ice"
      [] member = "LIGHTNING" -> "lightning"
      [] member = "POISON"    -> "poison"
      [] member = "HOLY"      -> "holy"
      [] member = "DARK"      -> "dark"
      [] member = "TRUE"      -> "true"

\* DamageType[raw.upper()]
DamageTypeByName(raw) ==
    CHOOSE member \in DamageType : DamageTypeValue(member) = raw

\* A resistance or weakness map lookup; 10 (1.0) when the key is absent.
Multiplier(table, key) ==
    IF \E i \in 1..Len(table) : table[i].dtype = key
    THEN table[CHOOSE i \in 1..Len(table) : table[i].dtype = key].mult
    ELSE 10

-----------------------------------------------------------------------------
(* class Enemy                                                             *)

\* Enemy.__init__; gold is the value random.randint(gold_min, gold_max*mult)
\* produced.
NewEnemy(enemy_type, level_mult, gold) ==
    LET data == enemy_types[enemy_type]
    IN  [type |-> enemy_type,
         max_health |-> data.base_health * level_mult,
         health |-> data.base_health * level_mult,
         damage |-> data.base_damage * level_mult,
         defense |-> data.base_defense * level_mult,
         speed |-> data.speed,
         pattern_index |-> 0,
         status_effects |-> <<>>,
         xp_reward |-> data.xp_reward * level_mult,
         gold_reward |-> gold,
         stunned |-> FALSE]

\* FinalDamage in which a weakness entry replaces the resistance entry.
FinalDamage_weakness_overrides(e, amount, damage_type) ==
    LET data == enemy_types[e.type]
        resist == Multiplier(data.resistances, DamageTypeValue(damage_type))
        weak == Multiplier(data.weaknesses, DamageTypeValue(damage_type))
        scaled == (amount * (IF weak # 10 THEN weak ELSE resist)) \div 10
    IN  IF damage_type = "PHYSICAL" THEN Max(1, scaled - e.defense) ELSE scaled

\* The value Enemy.take_damage returns (final_damage).
FinalDamage(e, amount, damage_type) ==
    LET data == enemy_types[e.type]
        resist == Multiplier(data.resistances, DamageTypeValue(damage_type))
        weak == Multiplier(data.weaknesses, DamageTypeValue(damage_type))
        scaled == (amount * resist * weak) \div 100
    IN  IF damage_type = "PHYSICAL" THEN Max(1, scaled - e.defense) ELSE scaled

\* Enemy.take_damage: the enemy after the hit.
take_damage(e, amount, damage_type) ==
    [e EXCEPT !.health = @ - FinalDamage(e, amount, damage_type)]

\* Enemy.heal
\* heal that adds the amount without looking at max_health.
heal_uncapped(e, amount) == [e EXCEPT !.health = e.health + amount]

heal(e, amount) == [e EXCEPT !.health = Min(e.max_health, e.health + amount)]

is_alive(e) == e.health > 0

\* Enemy.get_next_ability: the ability selected (the index advances in
\* process_enemy_turn below).
get_next_ability(e) ==
    LET patterns == enemy_types[e.type].attack_patterns
    IN  patterns[(e.pattern_index % Len(patterns)) + 1]

apply_status(e, effect, duration) ==
    [e EXCEPT !.status_effects =
        Append(@, [name |-> effect, duration |-> duration, stacks |-> 1])]

RemoveAt(seq, i) == SubSeq(seq, 1, i - 1) \o SubSeq(seq, i + 1, Len(seq))

\* Enemy.process_status_effects from position i of the list on.  The loop
\* walks a copy, so a removal does not skip the next entry.
RECURSIVE process_status_from(_, _)
process_status_from(m, i) ==
    IF m.exc # "none" \/ i > Len(m.enemy.status_effects) THEN m
    ELSE IF combat_system = "None"
    THEN Raise(m, "AttributeError")      \* None has no attribute status_effects
    ELSE
      Bind(status_effects[m.enemy.status_effects[i].name], LAMBDA data :
      Bind([(CASE data.on_turn = "damage" ->
                    take_damage(m.enemy, data.amount, DamageTypeByName(data.dtype))
               [] data.on_turn = "skip" -> [m.enemy EXCEPT !.stunned = TRUE]
               [] OTHER -> m.enemy)
            EXCEPT !.status_effects[i].duration = @ - 1], LAMBDA e2 :
        IF e2.status_effects[i].duration <= 0
        THEN IF data.has_on_end
             THEN Raise([m EXCEPT !.enemy = e2], "TypeError")  \* on_end is None
             ELSE Bind([m EXCEPT !.enemy =
                           [e2 EXCEPT !.status_effects = RemoveAt(@, i)]],
                       LAMBDA m1 : process_status_from(m1, i))
        ELSE Bind([m EXCEPT !.enemy = e2],
                  LAMBDA m1 : process_status_from(m1, i + 1))))

process_status_effects(m) == process_status_from(m, 1)

-----------------------------------------------------------------------------
(* Ability resolution.                                                     *)

\* apply_effect(effect_name, target, duration): who is the target.
apply_effect(m, effect_name, who, duration) ==
    IF effect_name \notin StatusNames THEN m
    ELSE IF who = "enemy"
    THEN [m EXCEPT !.enemy = apply_status(@, effect_name, duration)]
    ELSE [m EXCEPT !.player_debuffs =
             Append(@, [name |-> effect_name, duration |-> duration])]

Other(who) == IF who = "enemy" THEN "player" ELSE "enemy"

\* use_ability that applies the ability's effect even when the roll misses.
use_ability_effect_on_miss(m, user, ability_name, roll) ==
    Bind(AbilityOf(ability_name), LAMBDA ability :
    Bind(Other(user), LAMBDA target :
    Bind(((IF user = "enemy" THEN m.enemy.damage ELSE m.player.strength)
            * ability.damage_mult) \div 10, LAMBDA damage :
    Bind(DamageTypeByName(ability.damage_type), LAMBDA damage_type :
      IF roll > ability.accuracy
      THEN [apply_effect(m, ability.effect, target, ability.duration)
              EXCEPT !.res = IF user = "enemy" THEN "enemy_ability_misses"
                                               ELSE "your_ability_misses"]
      ELSE IF damage > 0 /\ target = "player"
      THEN Raise(m, "AttributeError")    \* dict has no attribute take_damage
      ELSE
        Bind(IF damage > 0 THEN FinalDamage(m.enemy, damage, damage_type) ELSE 0,
             LAMBDA damage_dealt :
        Bind(IF damage > 0
             THEN [m EXCEPT !.enemy = take_damage(@, damage, damage_type)]
             ELSE m, LAMBDA m1 :
        Bind(IF ability.effect # ""
             THEN apply_effect(m1, ability.effect, target, ability.duration)
             ELSE m1, LAMBDA m2 :
        Bind(IF ability.self_effect # ""
             THEN apply_effect(m2, ability.self_effect, user, ability.duration)
             ELSE m2, LAMBDA m3 :
        Bind((damage_dealt * ability.lifesteal) \div 10, LAMBDA heal_amount :
        Bind(IF ability.lifesteal # 0 /\ damage_dealt > 0
             THEN IF user = "enemy"
                  THEN [m3 EXCEPT !.enemy = heal(@, heal_amount)]
                  ELSE [m3 EXCEPT !.player.health =
                           Min(m3.player.max_health, @ + heal_amount)]
             ELSE m3, LAMBDA m4 :
          [m4 EXCEPT !.res =
              IF user = "enemy"
              THEN (IF damage_dealt > 0 THEN "enemy_ability_hits" ELSE "enemy_uses_ability")
              ELSE (IF damage_dealt > 0 THEN "your_ability_hits" ELSE "you_use_ability")]
        ))))))))))

\* use_ability(user, ability_name, target); roll is random.randint(1, 100).
\* The player is a dict: it has no take_damage, and the call raises when an
\* enemy ability is about to damage it.
use_ability(m, user, ability_name, roll) ==
    Bind(AbilityOf(ability_name), LAMBDA ability :
    Bind(Other(user), LAMBDA target :
    Bind(((IF user = "enemy" THEN m.enemy.damage ELSE m.player.strength)
            * ability.damage_mult) \div 10, LAMBDA damage :
    Bind(DamageTypeByName(ability.damage_type), LAMBDA damage_type :
      IF roll > ability.accuracy
      THEN [m EXCEPT !.res = IF user = "enemy" THEN "enemy_ability_misses"
                                               ELSE "your_ability_misses"]
      ELSE IF damage > 0 /\ target = "player"
      THEN Raise(m, "AttributeError")    \* dict has no attribute take_damage
      ELSE
        Bind(IF damage > 0 THEN FinalDamage(m.enemy, damage, damage_type) ELSE 0,
             LAMBDA damage_dealt :
        Bind(IF damage > 0
             THEN [m EXCEPT !.enemy = take_damage(@, damage, damage_type)]
             ELSE m, LAMBDA m1 :
        Bind(IF ability.effect # ""
             THEN apply_effect(m1, ability.effect, target, ability.duration)
             ELSE m1, LAMBDA m2 :
        Bind(IF ability.self_effect # ""
             THEN apply_effect(m2, ability.self_effect, user, ability.duration)
             ELSE m2, LAMBDA m3 :
        Bind((damage_dealt * ability.lifesteal) \div 10, LAMBDA heal_amount :
        Bind(IF ability.lifesteal # 0 /\ damage_dealt > 0
             THEN IF user = "enemy"
                  THEN [m3 EXCEPT !.enemy = heal(@, heal_amount)]
                  ELSE [m3 EXCEPT !.player.health =
                           Min(m3.player.max_health, @ + heal_amount)]
             ELSE m3, LAMBDA m4 :
          [m4 EXCEPT !.res =
              IF user = "enemy"
              THEN (IF damage_dealt > 0 THEN "enemy_ability_hits" ELSE "enemy_uses_ability")
              ELSE (IF damage_dealt > 0 THEN "your_ability_hits" ELSE "you_use_ability")]
        ))))))))))

\* process_enemy_turn(); roll is the accuracy draw of use_ability.
process_enemy_turn(m0, roll) ==
    Bind([m0 EXCEPT !.eturns = @ + 1], LAMBDA m :
      IF ~is_alive(m.enemy) THEN [m EXCEPT !.res = ""]
      ELSE IF m.enemy.stunned
      THEN [m EXCEPT !.enemy.stunned = FALSE, !.res = "enemy_stunned"]
      ELSE
        Bind(process_status_effects(m), LAMBDA m1 :
          IF m1.exc # "none" THEN m1
          ELSE
            Bind(get_next_ability(m1.enemy), LAMBDA ability_name :
            Bind([m1 EXCEPT !.enemy.pattern_index = @ + 1,
                            !.eused = Append(@, ability_name)], LAMBDA m2 :
            Bind(use_ability(m2, "enemy", ability_name, roll), LAMBDA m3 :
              IF m3.exc # "none" THEN m3
              ELSE add_to_log(m3, m3.res))))))

-----------------------------------------------------------------------------
(* Player actions.                                                         *)

InSeq(x, seq) == \E i \in 1..Len(seq) : seq[i] = x

\* list.remove(x): drops the first occurrence.
RemoveFirst(seq, x) ==
    RemoveAt(seq, CHOOSE i \in 1..Len(seq) :
                     seq[i] = x /\ \A j \in 1..(i - 1) : seq[j] # x)

\* player_attack whose miss still grazes the enemy for 1 damage.
player_attack_miss_grazes(m, hit, base_damage, crit) ==
    IF hit > BaseHit
    THEN [add_to_log([m EXCEPT !.enemy.health = @ - 1], "attack_misses")
             EXCEPT !.res = "attack_misses"]
    ELSE
      Bind(base_damage, LAMBDA damage :
      Bind([m EXCEPT !.enemy = take_damage(@, damage, "PHYSICAL")], LAMBDA m1 :
      Bind(add_to_log(m1, "attack_hits"), LAMBDA m2 :
      Bind(IF crit = 20
           THEN [m2 EXCEPT !.enemy = take_damage(@, damage \div 2, "PHYSICAL")]
           ELSE m2, LAMBDA m3 :
        [m3 EXCEPT !.res = "attack_hits"]))))

\* player_attack(); hit is randint(1, 100), base_damage is
\* randint(strength - 2, strength + 2), crit is randint(1, 20).  No buff the
\* engine creates carries 'damage_mult', so damage stays base_damage.
player_attack(m, hit, base_damage, crit) ==
    IF hit > BaseHit
    THEN [add_to_log(m, "attack_misses") EXCEPT !.res = "attack_misses"]
    ELSE
      Bind(base_damage, LAMBDA damage :
      Bind([m EXCEPT !.enemy = take_damage(@, damage, "PHYSICAL")], LAMBDA m1 :
      Bind(add_to_log(m1, "attack_hits"), LAMBDA m2 :
      Bind(IF crit = 20
           THEN [m2 EXCEPT !.enemy = take_damage(@, damage \div 2, "PHYSICAL")]
           ELSE m2, LAMBDA m3 :
        [m3 EXCEPT !.res = "attack_hits"]))))

\* player_defend()
player_defend(m) ==
    Bind([m EXCEPT !.player_buffs =
             Append(@, [name |-> "defending", defense_mult |-> 15,
                        duration |-> 2])], LAMBDA m1 :
      [add_to_log(m1, "defend") EXCEPT !.res = "defend"])

\* player_ability that does not look at the player's mana.
player_ability_unchecked_mana(m, ability_name, roll) ==
    IF ~InSeq(ability_name, m.player.abilities)
    THEN [m EXCEPT !.res = "no_such_ability"]
    ELSE
      Bind(use_ability(m, "player", ability_name, roll), LAMBDA m1 :
      Bind(IF ability_name \in PlayerAbilityNames
           THEN [m1 EXCEPT !.player.mana = @ - ManaCost(ability_name)]
           ELSE m1, LAMBDA m2 :
        add_to_log(m2, m2.res)))

\* player_ability(ability_name); roll is the accuracy draw of use_ability.
player_ability(m, ability_name, roll) ==
    IF ~InSeq(ability_name, m.player.abilities)
    THEN [m EXCEPT !.res = "no_such_ability"]
    ELSE IF ManaCost(ability_name) > m.player.mana
    THEN [m EXCEPT !.res = "not_enough_mana"]
    ELSE
      Bind(use_ability(m, "player", ability_name, roll), LAMBDA m1 :
      Bind(IF ability_name \in PlayerAbilityNames
           THEN [m1 EXCEPT !.player.mana = @ - ManaCost(ability_name)]
           ELSE m1, LAMBDA m2 :
        add_to_log(m2, m2.res)))

\* The effect loop of player_use_item from effect i on.  A 'damage' effect
\* hands take_damage the raw effect.get('damage_type') (a str or None), and
\* take_damage reads its .value.
RECURSIVE apply_item_effects(_, _, _)
apply_item_effects(m, effects, i) ==
    IF m.exc # "none" \/ i > Len(effects) THEN m
    ELSE
      Bind(effects[i], LAMBDA effect :
        CASE effect.type = "heal" ->
               Bind([m EXCEPT !.player.health =
                        @ + Min(effect.amount, m.player.max_health - m.player.health)],
                    LAMBDA m1 : apply_item_effects(m1, effects, i + 1))
          [] effect.type = "damage" ->
               IF effect.damage_type \in DamageType
               THEN Bind([m EXCEPT !.enemy =
                             take_damage(@, effect.amount, effect.damage_type)],
                         LAMBDA m1 : apply_item_effects(m1, effects, i + 1))
               ELSE Raise(m, "AttributeError")   \* str/None has no attribute value
          [] OTHER -> apply_item_effects(m, effects, i + 1))

\* player_use_item(item_name)
player_use_item(m, item_name) ==
    IF ~InSeq(item_name, m.player.inventory)
    THEN [m EXCEPT !.res = "no_such_item"]
    ELSE
      Bind(apply_item_effects(m, ItemEffects(item_name), 1), LAMBDA m1 :
        IF m1.exc # "none" THEN m1
        ELSE
          Bind([m1 EXCEPT !.player.inventory = RemoveFirst(@, item_name)],
               LAMBDA m2 :
            [add_to_log(m2, "used_item") EXCEPT !.res = "used_item"]))

\* FleeChance without the upper cap.
FleeChance_no_upper_cap(player_speed, enemy_speed) ==
    Max(FleeMinPct, FleeBasePct + (player_speed - enemy_speed) * FleePerSpeedPct)

\* The flee chance in percent.
FleeChance(player_speed, enemy_speed) ==
    Max(FleeMinPct,
        Min(FleeMaxPct, FleeBasePct + (player_speed - enemy_speed) * FleePerSpeedPct))

\* player_flee(); draw is floor(100 * random.random()).
player_flee(m, draw) ==
    IF draw < FleeChance(m.player.speed, m.enemy.speed)
    THEN Bind([m EXCEPT !.state = "FLEE"], LAMBDA m1 :
           [add_to_log(m1, "flee_success") EXCEPT !.res = "flee_success"])
    ELSE [add_to_log(m, "flee_failed") EXCEPT !.res = "flee_failed"]

-----------------------------------------------------------------------------
(* Rewards.                                                                *)

\* level_up()
level_up(m) ==
    [m EXCEPT !.player =
        [@ EXCEPT !.level = @ + 1,
                  !.xp = @ - m.player.xp_to_next,
                  !.xp_to_next = (@ * 3) \div 2,
                  !.max_health = @ + 10,
                  !.health = m.player.max_health + 10,
                  !.strength = @ + 2,
                  !.defense = @ + 1]]

\* get_loot(): loot is the set of loot-table positions whose 30% roll
\* succeeded; the items are appended in table order.
RECURSIVE get_loot(_, _, _)
get_loot(m, loot, i) ==
    Bind(enemy_types[m.enemy.type].loot_table, LAMBDA table :
      IF i > Len(table) THEN m
      ELSE Bind(IF i \in loot
                THEN [m EXCEPT !.player.inventory = Append(@, table[i])]
                ELSE m,
                LAMBDA m1 : get_loot(m1, loot, i + 1)))

\* process_victory that pays the low end of the enemy's gold range instead of
\* the amount drawn when the enemy was created.
process_victory_pays_gold_min(m, loot) ==
    Bind([m EXCEPT !.player.xp = @ + m.enemy.xp_reward,
                   !.player.gold = @ + enemy_types[m.enemy.type].gold_min],
         LAMBDA m1 :
    Bind(IF m1.player.xp >= m1.player.xp_to_next THEN level_up(m1) ELSE m1,
         LAMBDA m2 :
    Bind(get_loot(m2, loot, 1), LAMBDA m3 :
      [add_to_log(m3, "Victory!") EXCEPT !.res = "victory"])))

\* process_victory that keeps levelling while the XP left still reaches the
\* threshold (here: up to twice).
process_victory_levels_repeatedly(m, loot) ==
    Bind([m EXCEPT !.player.xp = @ + m.enemy.xp_reward,
                   !.player.gold = @ + m.enemy.gold_reward], LAMBDA m1 :
    Bind(IF m1.player.xp >= m1.player.xp_to_next THEN level_up(m1) ELSE m1,
         LAMBDA m2 :
    Bind(IF m2.player.level > m1.player.level
            /\ m2.player.xp >= m2.player.xp_to_next
         THEN level_up(m2) ELSE m2, LAMBDA m2b :
    Bind(get_loot(m2b, loot, 1), LAMBDA m3 :
      [add_to_log(m3, "Victory!") EXCEPT !.res = "victory"]))))

\* process_victory()
process_victory(m, loot) ==
    Bind([m EXCEPT !.player.xp = @ + m.enemy.xp_reward,
                   !.player.gold = @ + m.enemy.gold_reward], LAMBDA m1 :
    Bind(IF m1.player.xp >= m1.player.xp_to_next THEN level_up(m1) ELSE m1,
         LAMBDA m2 :
    Bind(get_loot(m2, loot, 1), LAMBDA m3 :
      [add_to_log(m3, "Victory!") EXCEPT !.res = "victory"])))

\* process_defeat()
process_defeat(m) == [add_to_log(m, "Defeat!") EXCEPT !.res = "defeat"]

-----------------------------------------------------------------------------
(* The turn engine.                                                        *)

Actions == {"attack", "defend", "ability", "use_item", "flee"}

\* The random draws one call may consume.
Draws(hit, base_damage, crit, roll, flee, eroll, loot) ==
    [hit |-> hit, base_damage |-> base_damage, crit |-> crit, roll |-> roll,
     flee |-> flee, eroll |-> eroll, loot |-> loot]

\* The action dispatch of process_player_turn.
resolve_action(m, action, target, item, d) ==
    CASE action = "attack"   -> player_attack(m, d.hit, d.base_damage, d.crit)
      [] action = "defend"   -> player_defend(m)
      [] action = "ability"  -> player_ability(m, target, d.roll)
      [] action = "use_item" -> player_use_item(m, item)
      [] action = "flee"     -> player_flee(m, d.flee)

\* after_action without the victory check: a dead enemy is handed its turn.
after_action_no_victory_check(m, d) ==
    Bind([m EXCEPT !.state = "ENEMY_TURN", !.turn_count = @ + 1], LAMBDA m1 :
    Bind(process_enemy_turn(m1, d.eroll), LAMBDA m2 :
      IF m2.exc # "none" THEN m2
      ELSE
        Bind([m2 EXCEPT !.out = Append(@, m2.res)], LAMBDA m3 :
        Bind(IF m3.player.health <= 0
             THEN Bind(process_defeat([m3 EXCEPT !.state = "DEFEAT"]), LAMBDA md :
                    [md EXCEPT !.out = Append(@, md.res)])
             ELSE m3, LAMBDA m4 :
          IF m4.state = "ACTIVE"
          THEN [m4 EXCEPT !.state = "PLAYER_TURN"]
          ELSE m4))))

\* after_action with the defeat test written as health < 0.
after_action_defeat_below_zero(m, d) ==
    IF ~is_alive(m.enemy)
    THEN Bind(process_victory([m EXCEPT !.state = "VICTORY"], d.loot), LAMBDA m1 :
           [m1 EXCEPT !.out = Append(@, m1.res)])
    ELSE
      Bind([m EXCEPT !.state = "ENEMY_TURN", !.turn_count = @ + 1], LAMBDA m1 :
      Bind(process_enemy_turn(m1, d.eroll), LAMBDA m2 :
        IF m2.exc # "none" THEN m2
        ELSE
          Bind([m2 EXCEPT !.out = Append(@, m2.res)], LAMBDA m3 :
          Bind(IF m3.player.health < 0
               THEN Bind(process_defeat([m3 EXCEPT !.state = "DEFEAT"]), LAMBDA md :
                      [md EXCEPT !.out = Append(@, md.res)])
               ELSE m3, LAMBDA m4 :
            IF m4.state = "ACTIVE"
            THEN [m4 EXCEPT !.state = "PLAYER_TURN"]
            ELSE m4))))

\* What follows the dispatch: the victory check, the enemy turn, the defeat
\* check and the switch back.
after_action(m, d) ==
    IF ~is_alive(m.enemy)
    THEN Bind(process_victory([m EXCEPT !.state = "VICTORY"], d.loot), LAMBDA m1 :
           [m1 EXCEPT !.out = Append(@, m1.res)])
    ELSE
      Bind([m EXCEPT !.state = "ENEMY_TURN", !.turn_count = @ + 1], LAMBDA m1 :
      Bind(process_enemy_turn(m1, d.eroll), LAMBDA m2 :
        IF m2.exc # "none" THEN m2
        ELSE
          Bind([m2 EXCEPT !.out = Append(@, m2.res)], LAMBDA m3 :
          Bind(IF m3.player.health <= 0
               THEN Bind(process_defeat([m3 EXCEPT !.state = "DEFEAT"]), LAMBDA md :
                      [md EXCEPT !.out = Append(@, md.res)])
               ELSE m3, LAMBDA m4 :
            IF m4.state = "ACTIVE"
            THEN [m4 EXCEPT !.state = "PLAYER_TURN"]
            ELSE m4))))

\* process_player_turn whose turn check also lets a call through in
\* accept_state.
process_player_turn_accepting(m, action, target, item, d, accept_state) ==
    IF m.state \notin {"PLAYER_TURN", accept_state}
    THEN [m EXCEPT !.out = <<"not_your_turn">>]
    ELSE IF action \notin Actions
    THEN [m EXCEPT !.out = <<"invalid_action">>]
    ELSE
      Bind(resolve_action(m, action, target, item, d), LAMBDA m1 :
        IF m1.exc # "none" THEN m1
        ELSE Bind([m1 EXCEPT !.out = <<m1.res>>,
                             !.kill = ~is_alive(m1.enemy)],
                  LAMBDA m2 : after_action(m2, d)))

\* process_player_turn that still accepts actions after VICTORY.
process_player_turn_after_victory(m, action, target, item, d) ==
    process_player_turn_accepting(m, action, target, item, d, "VICTORY")

\* process_player_turn that still accepts actions after DEFEAT.
process_player_turn_after_defeat(m, action, target, item, d) ==
    process_player_turn_accepting(m, action, target, item, d, "DEFEAT")

\* process_player_turn that reports an unknown action and carries on with
\* the enemy turn instead of returning.
process_player_turn_invalid_falls_through(m, action, target, item, d) ==
    IF m.state # "PLAYER_TURN"
    THEN [m EXCEPT !.out = <<"not_your_turn">>]
    ELSE IF action \notin Actions
    THEN Bind([m EXCEPT !.out = <<"invalid_action">>],
              LAMBDA m2 : after_action(m2, d))
    ELSE
      Bind(resolve_action(m, action, target, item, d), LAMBDA m1 :
        IF m1.exc # "none" THEN m1
        ELSE Bind([m1 EXCEPT !.out = <<m1.res>>,
                             !.kill = ~is_alive(m1.enemy)],
                  LAMBDA m2 : after_action(m2, d)))

\* process_player_turn(action, target, item)
process_player_turn(m, action, target, item, d) ==
    IF m.state # "PLAYER_TURN"
    THEN [m EXCEPT !.out = <<"not_your_turn">>]
    ELSE IF action \notin Actions
    THEN [m EXCEPT !.out = <<"invalid_action">>]
    ELSE
      Bind(resolve_action(m, action, target, item, d), LAMBDA m1 :
        IF m1.exc # "none" THEN m1
        ELSE Bind([m1 EXCEPT !.out = <<m1.res>>,
                             !.kill = ~is_alive(m1.enemy)],
                  LAMBDA m2 : after_action(m2, d)))

\* start_combat(enemy_type, level_mult); gold is the draw of Enemy.__init__.
\* The buff and debuff lists are not among the fields it assigns.
start_combat(m, enemy_type, level_mult, gold) ==
    Bind([m EXCEPT !.enemy = NewEnemy(enemy_type, level_mult, gold),
                   !.state = "PLAYER_TURN",
                   !.turn_count = 0,
                   !.combat_log = <<>>], LAMBDA m1 :
    Bind(add_to_log(m1, "combat_started"), LAMBDA m2 :
      add_to_log(m2, "description")))

\* in_combat()
in_combat(m) == m.state \notin {"VICTORY", "DEFEAT", "FLEE"}

\* process_turn(action): target and item keep their default None.
process_turn(m, action, d) ==
    IF ~in_combat(m) THEN [m EXCEPT !.out = <<"not_in_combat">>]
    ELSE IF m.state = "PLAYER_TURN"
    THEN process_player_turn(m, action, "None", "None", d)
    ELSE [m EXCEPT !.out = <<"wait_for_your_turn">>]

\* get_combat_status(): the figures of the two "health/max_health" pairs it
\* prints, the player's first; none when it answers "Not in combat".
get_combat_status(m) ==
    IF m.enemy = NoEnemy THEN <<>>
    ELSE <<m.player.health, m.player.max_health,
           m.enemy.health, m.enemy.max_health>>

\* get_enemy_status(): the figures of "name [health/max_health HP]"; none
\* when it answers the empty string.
get_enemy_status(m) ==
    IF m.enemy = NoEnemy THEN <<>>
    ELSE <<m.enemy.health, m.enemy.max_health>>

-----------------------------------------------------------------------------
(* class QuestManager.  A quest is an object shared by the lists that hold *)
(* it: quests[q] is the object, the lists hold the references q.           *)

\* The transient record a QuestManager call works on.
\*   ret     what the call returns (a list of strings)
\*   res     what complete_quest returned
\*   made    progress_made of update_quest_progress
\*   turned  the quest whose rewards this call paid out, 0 for none
QuestMachine ==
    [quests |-> quest_manager.quests,
     available_quests |-> quest_manager.available_quests,
     active_quests |-> quest_manager.active_quests,
     completed_quests |-> quest_manager.completed_quests,
     failed_quests |-> quest_manager.failed_quests,
     quest_log |-> quest_manager.quest_log,
     reputation |-> quest_manager.reputation,
     player |-> player, ret |-> <<>>, res |-> "", made |-> FALSE,
     turned |-> 0]

\* The position of the first quest of list with this id, 0 when there is
\* none.
FirstById(qm, list, quest_id) ==
    IF \E i \in 1..Len(list) : qm.quests[list[i]].id = quest_id
    THEN CHOOSE i \in 1..Len(list) :
           /\ qm.quests[list[i]].id = quest_id
           /\ \A j \in 1..(i - 1) : qm.quests[list[j]].id # quest_id
    ELSE 0

\* log_quest_event(event_type, quest)
log_quest_event(qm, event_type, q) ==
    LET appended == Append(qm.quest_log,
                           [event |-> event_type, quest_id |-> qm.quests[q].id])
    IN  [qm EXCEPT !.quest_log =
            IF Len(appended) > 100
            THEN SubSeq(appended, Len(appended) - 99, Len(appended))
            ELSE appended]

\* offer_quest(quest, npc_name)
offer_quest(qm, q, npc_name) ==
    Bind([qm EXCEPT !.quests[q].giver = npc_name,
                    !.quests[q].status = "AVAILABLE"], LAMBDA m1 :
    Bind(IF InSeq(q, m1.available_quests) THEN m1
         ELSE [m1 EXCEPT !.available_quests = Append(@, q)], LAMBDA m2 :
      [m2 EXCEPT !.ret = <<"dialogue">>]))

\* accept_quest that leaves the quest in available_quests.
accept_quest_keeps_available(qm, quest_id) ==
    Bind(FirstById(qm, qm.available_quests, quest_id), LAMBDA i :
      IF i = 0 THEN [qm EXCEPT !.ret = <<"False">>]
      ELSE
        Bind(qm.available_quests[i], LAMBDA q :
        Bind([qm EXCEPT !.quests[q].status = "ACTIVE",
                        !.active_quests = Append(@, q)], LAMBDA m1 :
          [log_quest_event(m1, "accept", q) EXCEPT !.ret = <<"True">>])))

\* accept_quest(quest_id)
accept_quest(qm, quest_id) ==
    Bind(FirstById(qm, qm.available_quests, quest_id), LAMBDA i :
      IF i = 0 THEN [qm EXCEPT !.ret = <<"False">>]
      ELSE
        Bind(qm.available_quests[i], LAMBDA q :
        Bind([qm EXCEPT !.available_quests = RemoveFirst(@, q),
                        !.quests[q].status = "ACTIVE",
                        !.active_quests = Append(@, q)], LAMBDA m1 :
          [log_quest_event(m1, "accept", q) EXCEPT !.ret = <<"True">>])))

\* fail_quest(quest_id, reason): the first active quest with the id leaves
\* active_quests for failed_quests; None is returned when there is none.
fail_quest(qm, quest_id) ==
    Bind(FirstById(qm, qm.active_quests, quest_id), LAMBDA i :
      IF i = 0 THEN [qm EXCEPT !.ret = <<"None">>]
      ELSE
        Bind(qm.active_quests[i], LAMBDA q :
        Bind([qm EXCEPT !.active_quests = RemoveFirst(@, q),
                        !.quests[q].status = "FAILED",
                        !.failed_quests = Append(@, q)], LAMBDA m1 :
          [log_quest_event(m1, "fail", q) EXCEPT !.ret = <<"failure">>])))

\* complete_quest(quest_id); res is the message, "" when no active quest has
\* the id.
complete_quest(qm, quest_id) ==
    Bind(FirstById(qm, qm.active_quests, quest_id), LAMBDA i :
      IF i = 0 THEN [qm EXCEPT !.res = ""]
      ELSE [qm EXCEPT !.quests[qm.active_quests[i]].status = "COMPLETED",
                      !.res = "quest_complete"])

\* The objective loop of update_quest_progress for the quest q, from
\* objective j on, for a 'kill' event with count 1.  (The 'collect' and
\* 'explore' branches need objectives of those types; the quests explored
\* here have none.)
RECURSIVE progress_objectives(_, _, _, _, _)
progress_objectives(qm, q, j, event_type, target) ==
    IF j > Len(qm.quests[q].objectives) THEN qm
    ELSE
      Bind(qm.quests[q].objectives[j], LAMBDA objective :
        IF objective.type = event_type /\ event_type = "kill"
           /\ objective.target = target
        THEN
          Bind([qm EXCEPT !.quests[q].objectives[j].current = @ + 1,
                          !.made = TRUE], LAMBDA m1 :
          Bind(IF objective.boss
                  /\ m1.quests[q].objectives[j].current >= objective.count
               THEN Bind(complete_quest(m1, m1.quests[q].id), LAMBDA mc :
                      [mc EXCEPT !.ret = Append(@, mc.res)])
               ELSE m1, LAMBDA m2 :
            progress_objectives(m2, q, j + 1, event_type, target)))
        ELSE progress_objectives(qm, q, j + 1, event_type, target))

\* The quest loop of update_quest_progress over the copy of active_quests
\* taken at its start.
RECURSIVE progress_quests(_, _, _, _, _)
progress_quests(qm, snapshot, i, event_type, target) ==
    IF i > Len(snapshot) THEN qm
    ELSE
      Bind(progress_objectives([qm EXCEPT !.made = FALSE], snapshot[i], 1,
                               event_type, target), LAMBDA m1 :
      Bind(IF m1.made THEN log_quest_event(m1, "progress", snapshot[i])
           ELSE m1, LAMBDA m2 :
        progress_quests(m2, snapshot, i + 1, event_type, target)))

\* update_quest_progress(event_type, target); ret is the completions list.
update_quest_progress(qm, event_type, target) ==
    progress_quests([qm EXCEPT !.ret = <<>>], qm.active_quests, 1,
                    event_type, target)

\* QuestManager.level_up()
quest_level_up(qm) ==
    [qm EXCEPT !.player =
        [@ EXCEPT !.level = @ + 1,
                  !.xp = @ - qm.player.xp_to_next,
                  !.xp_to_next = (@ * 3) \div 2,
                  !.max_health = @ + 10,
                  !.health = qm.player.max_health + 10,
                  !.strength = @ + 2,
                  !.defense = @ + 1]]

\* give_rewards(rewards).  The quests explored here carry no 'special'
\* reward.
give_rewards(qm, rewards) ==
    Bind(IF rewards.gold > 0
         THEN [qm EXCEPT !.player.gold = @ + rewards.gold] ELSE qm, LAMBDA m1 :
    Bind(IF rewards.xp > 0
         THEN [m1 EXCEPT !.player.xp = @ + rewards.xp] ELSE m1, LAMBDA m2 :
    Bind([m2 EXCEPT !.player.inventory = @ \o rewards.items], LAMBDA m3 :
    Bind([m3 EXCEPT !.reputation.townsfolk = @ + rewards.reputation.townsfolk,
                    !.reputation.guild = @ + rewards.reputation.guild],
         LAMBDA m4 :
      IF m4.player.xp >= m4.player.xp_to_next THEN quest_level_up(m4)
      ELSE m4))))

\* generate_completion_dialogue(quest); bonus_gold is 0 when the 20% draw
\* for the extra fails, else the value of random.randint(5, 20).
generate_completion_dialogue(qm, bonus_gold) ==
    [qm EXCEPT !.player.gold = @ + bonus_gold]

\* The loop of turn_in_quest over the copy of active_quests taken at its
\* start.  (No quest explored here has a 'next_quest'.)
RECURSIVE turn_in_from(_, _, _, _, _, _)
turn_in_from(qm, snapshot, i, quest_id, npc_name, bonus_gold) ==
    IF i > Len(snapshot) THEN [qm EXCEPT !.ret = <<"no_quest_to_turn_in">>]
    ELSE
      Bind(snapshot[i], LAMBDA q :
        IF qm.quests[q].id = quest_id /\ qm.quests[q].giver = npc_name
        THEN
          IF qm.quests[q].status = "COMPLETED"
          THEN
            Bind(give_rewards(qm, qm.quests[q].rewards), LAMBDA m1 :
            Bind([m1 EXCEPT !.active_quests = RemoveFirst(@, q),
                            !.quests[q].status = "TURNED_IN",
                            !.completed_quests = Append(@, q)], LAMBDA m2 :
            Bind(generate_completion_dialogue(m2, bonus_gold), LAMBDA m3 :
            Bind(log_quest_event(m3, "turn_in", q), LAMBDA m4 :
              [m4 EXCEPT !.ret = <<"rewards">>, !.turned = q]))))
          ELSE IF qm.quests[q].status = "ACTIVE"
          THEN [qm EXCEPT !.ret = <<"not_completed_yet">>]
          ELSE turn_in_from(qm, snapshot, i + 1, quest_id, npc_name, bonus_gold)
        ELSE turn_in_from(qm, snapshot, i + 1, quest_id, npc_name, bonus_gold))

\* turn_in_quest(quest_id, npc_name)
turn_in_quest(qm, quest_id, npc_name, bonus_gold) ==
    turn_in_from(qm, qm.active_quests, 1, quest_id, npc_name, bonus_gold)

-----------------------------------------------------------------------------
(* class WorldGenerator.  Locations are numbered in the order they enter   *)
(* self.world; exits maps each direction to Absent (no such key), Unset    *)
(* (None) or the number of the location the exit leads to.                 *)

Directions == {"north", "south", "east", "west"}
Absent == -1
Unset == 0

\* opposite_direction(direction)
opposite_direction(direction) ==
    CASE direction = "north" -> "south"
      [] direction = "south" -> "north"
      [] direction = "east"  -> "west"
      [] direction = "west"  -> "east"
      [] OTHER               -> direction

\* The keys of the descriptions dict of create_location.
DescribedTypes == {"civilization", "wilderness", "water", "highlands"}

\* create_location: descriptions[loc_type] raises KeyError for a type the
\* dict has no key for, before anything else is drawn; otherwise the
\* location holds the exits dict {exit: None for exit in exits}.
create_location(loc_type, exits) ==
    IF loc_type \notin DescribedTypes
    THEN [exc |-> "KeyError",
          location |-> [exits |-> [d \in Directions |-> Absent]]]
    ELSE [exc |-> "none",
          location |-> [exits |-> [d \in Directions |->
                                     IF d \in exits THEN Unset ELSE Absent]]]

\* possible_targets in create_connections: dict.get yields None for a
\* missing key as well as for an exit that is still None.
possible_targets(w, loc_id, direction) ==
    {l \in 1..Len(w) :
        /\ l # loc_id
        /\ w[l].exits[opposite_direction(direction)] \in {Absent, Unset}}

\* One round of the inner loop of create_connections: the exit direction of
\* loc_id, connected to target (0 when there is no possible target).
connect_exit(w, loc_id, direction, target) ==
    IF w[loc_id].exits[direction] # Unset \/ target = 0 THEN w
    ELSE [w EXCEPT ![loc_id].exits[direction] = target,
                   ![target].exits[opposite_direction(direction)] = loc_id]

-----------------------------------------------------------------------------
(* Inputs of the exploration.                                              *)

\* Representative values of random.randint(1, 100): one on each side of
\* every hit threshold the exploration meets (70, 85, 90).
D100 == {1, 71, 86, 91}

\* The draws of D100 that decide a roll against a threshold differently: one
\* that is <= threshold and, when there is one, one that is above it.
Rolls(threshold) ==
    {CHOOSE r \in D100 : r <= threshold}
      \cup (IF \E r \in D100 : r > threshold
            THEN {CHOOSE r \in D100 : r > threshold} ELSE {})

\* Representative values of random.randint(1, 20): no critical, critical.
D20 == {1, 20}

\* Representative values of random.randint(strength - 2, strength + 2).
StrengthDraws(strength) == {strength - 2, strength, strength + 2}

\* Representative values of floor(100 * random.random()): one on each side
\* of the flee chances the exploration meets (10 and 20 percent).
FleeDraws == {9, 10, 19, 20}

\* The (enemy_type, level_mult) pairs start_combat is called with.
Spawns == {<<"goblin", 1>>, <<"goblin", 2>>, <<"wolf", 1>>}

\* Representative values of random.randint(gold_min, int(gold_max * mult)):
\* the two ends of the range.
GoldDraws(enemy_type, level_mult) ==
    {enemy_types[enemy_type].gold_min,
     enemy_types[enemy_type].gold_max * level_mult}

\* Arguments callers pass.  "dance" is not a combat action; "smite" is an
\* ability and "elixir" an item the player does not have; "None" is the
\* default of an omitted argument.
ActionInputs == Actions \cup {"dance"}
\* The actions the game loop hands to process_turn.
TurnInputs == {"attack", "defend", "flee"}
TargetInputs == {"power_attack", "fireball", "poison", "charge", "smite"}
ItemInputs == {"health_potion", "bomb", "elixir"}

\* The player records a session may start from: the record the game creates
\* (with some damage taken), a stronger character one kill short of a level,
\* and a record whose health is already 0.  Only the differing fields vary.
PlayerRecord(health, mana, strength, xp) ==
    [health |-> health, max_health |-> 100, mana |-> mana,
     strength |-> strength, defense |-> 10, speed |-> DefaultSpeed,
     level |-> 1, xp |-> xp, xp_to_next |-> 100, gold |-> 50,
     inventory |-> <<"health_potion", "bomb">>,
     abilities |-> <<"power_attack", "fireball", "poison", "charge">>]

PlayerRecords ==
    {PlayerRecord(80, 50, 10, 0), PlayerRecord(80, 10, 25, 90),
     PlayerRecord(0, 50, 10, 0)}

\* The record of a call: the method, whether its action argument was one of
\* the five combat actions, the state and turn count it found, the exception
\* it ended with, the strings it returned, and what it did on the way.
NoCall == [op |-> "none", valid |-> FALSE, pre_state |-> "ACTIVE",
           pre_turn |-> 0, exc |-> "none", out |-> <<>>, eturns |-> 0,
           eused |-> <<>>, kill |-> FALSE]

-----------------------------------------------------------------------------
(* Specification.                                                          *)

Init ==
    /\ state = "ACTIVE"
    /\ turn_count = 0
    /\ combat_log = <<>>
    /\ player \in PlayerRecords
    /\ enemy = NoEnemy
    /\ player_buffs = <<>>
    /\ player_debuffs = <<>>
    /\ combat_system \in {"None", "bound"}
    /\ call = NoCall
    /\ sessions = 0
    /\ enemy_calls = 0
    /\ enemy_turns = 0
    /\ trace = <<>>
    /\ OthersIdle

\* Whether the call took an enemy turn: process_enemy_turn was entered with
\* a living enemy and either returned or got as far as get_next_ability.
TookEnemyTurn(m, op) ==
    /\ m.eturns > 0
    /\ op = "process_enemy_turn" => is_alive(enemy)
    /\ m.exc = "none" \/ m.eused # <<>>

\* Writes a finished call back to the engine's fields.
Commit(m, op, action) ==
    /\ state' = m.state
    /\ turn_count' = m.turn_count
    /\ combat_log' = m.combat_log
    /\ player' = m.player
    /\ enemy' = m.enemy
    /\ player_buffs' = m.player_buffs
    /\ player_debuffs' = m.player_debuffs
    /\ call' = [op |-> op, valid |-> action \in Actions, pre_state |-> state,
                pre_turn |-> turn_count, exc |-> m.exc,
                out |-> IF m.exc = "none" THEN m.out ELSE <<>>,
                eturns |-> m.eturns, eused |-> m.eused, kill |-> m.kill]
    /\ enemy_turns' = IF op = "start_combat" THEN 0
                      ELSE IF TookEnemyTurn(m, op) THEN enemy_turns + 1
                      ELSE enemy_turns
    /\ UNCHANGED <<combat_system, quest_manager, quest_call, world, world_pc>>

\* A caller invokes start_combat(enemy_type, level_mult).
StartCombat ==
    /\ sessions < MaxSessions
    /\ \E spawn \in Spawns :
         \E gold \in GoldDraws(spawn[1], spawn[2]) :
           \E m0 \in {Machine} :
             \E m \in {start_combat(m0, spawn[1], spawn[2], gold)} :
               Commit(m, "start_combat", "None")
    /\ sessions' = sessions + 1
    /\ enemy_calls' = 0
    /\ UNCHANGED trace

\* The draws a call can consume, given the action it resolves: an attack
\* that misses draws no damage and no critical, an ability rolls against
\* its own accuracy.
PreDraws(action, target) ==
    CASE action = "attack" ->
           {Draws(hit, base_damage, crit, 1, 0, 1, {}) :
               hit \in {r \in Rolls(BaseHit) : r <= BaseHit},
               base_damage \in StrengthDraws(player.strength),
               crit \in D20}
             \cup {Draws(hit, 0, 1, 1, 0, 1, {}) :
                      hit \in {r \in Rolls(BaseHit) : r > BaseHit}}
      [] action = "ability" ->
           {Draws(1, 0, 1, roll, 0, 1, {}) :
               roll \in Rolls(AbilityOf(target).accuracy)}
      [] action = "flee" ->
           {Draws(1, 0, 1, 1, flee, 1, {}) : flee \in FleeDraws}
      [] OTHER -> {Draws(1, 0, 1, 1, 0, 1, {})}

\* The draws of the second half of a call: the loot rolls matter when the
\* enemy died, the enemy's roll against the accuracy of its next ability
\* when it takes its turn.
PostDraws(m, action, target, item, d) ==
    IF action \notin Actions THEN {d}
    ELSE
      Bind(resolve_action(m, action, target, item, d), LAMBDA m1 :
        IF m1.exc # "none" THEN {d}
        ELSE IF ~is_alive(m1.enemy)
        THEN {[d EXCEPT !.loot = loot] :
                loot \in SUBSET (1..Len(enemy_types[m.enemy.type].loot_table))}
        ELSE {[d EXCEPT !.eroll = eroll] :
                eroll \in Rolls(AbilityOf(get_next_ability(m1.enemy)).accuracy)})

\* A caller invokes process_player_turn(action, target, item).  Out of turn
\* the call is rejected before target and item are read, and they keep
\* their defaults.
ProcessPlayerTurn ==
    /\ \E action \in ActionInputs :
         \E target \in (IF action = "ability" /\ state = "PLAYER_TURN"
                        THEN TargetInputs ELSE {"None"}),
            item \in (IF action = "use_item" /\ state = "PLAYER_TURN"
                      THEN ItemInputs ELSE {"None"}) :
           \E m0 \in {Machine} :
             \E d0 \in (IF state # "PLAYER_TURN" THEN {Draws(1, 0, 1, 1, 0, 1, {})}
                                                 ELSE PreDraws(action, target)) :
               \E d \in (IF state # "PLAYER_TURN" THEN {d0}
                          ELSE PostDraws(m0, action, target, item, d0)) :
                 \E m \in {process_player_turn(m0, action, target, item, d)} :
                   Commit(m, "process_player_turn", action)
    /\ UNCHANGED <<sessions, enemy_calls, trace>>

\* A caller invokes process_turn(action).
ProcessTurn ==
    /\ \E action \in TurnInputs :
         \E m0 \in {Machine} :
           \E d0 \in (IF state # "PLAYER_TURN" THEN {Draws(1, 0, 1, 1, 0, 1, {})}
                                               ELSE PreDraws(action, "None")) :
             \E d \in (IF state # "PLAYER_TURN" THEN {d0}
                        ELSE PostDraws(m0, action, "None", "None", d0)) :
               \E m \in {process_turn(m0, action, d)} :
                 Commit(m, "process_turn", action)
    /\ UNCHANGED <<sessions, enemy_calls, trace>>

\* A caller invokes process_enemy_turn() directly.  Before start_combat the
\* enemy is None and is_alive() cannot be reached.
ProcessEnemyTurn ==
    /\ enemy_calls < MaxEnemyCalls
    /\ \E eroll \in (IF enemy = NoEnemy THEN {1}
                      ELSE Rolls(AbilityOf(get_next_ability(enemy)).accuracy)) :
         \E m0 \in {Machine} :
           \E m \in {IF enemy = NoEnemy
                      THEN Raise(m0, "AttributeError")
                      ELSE process_enemy_turn(m0, eroll)} :
             Commit(m, "process_enemy_turn", "None")
    /\ enemy_calls' = enemy_calls + 1
    /\ UNCHANGED <<sessions, trace>>

Next ==
    \/ StartCombat
    \/ ProcessPlayerTurn
    \/ ProcessTurn
    \/ ProcessEnemyTurn

Spec == Init /\ [][Next]_vars

-----------------------------------------------------------------------------
(* Component-level runs: a caller drives single methods of the engine and  *)
(* of its Enemy object, as a unit test does.                               *)

\* One entry of trace: the method called and its arguments.
Called(op, name, n, who) == [op |-> op, name |-> name, n |-> n, who |-> who]

\* A direct call of a method: its effect is written back and it is recorded.
DirectCall(m, entry) ==
    /\ Commit(m, entry.op, "None")
    /\ trace' = Append(trace, entry)
    /\ UNCHANGED <<sessions, enemy_calls>>

\* The engine right after start_combat(enemy_type), with the enemy's health
\* then set to health.
Started(enemy_type, health, p) ==
    /\ state = "PLAYER_TURN"
    /\ turn_count = 0
    /\ combat_log = <<"combat_started", "description">>
    /\ player = p
    /\ enemy = [NewEnemy(enemy_type, 1, enemy_types[enemy_type].gold_min)
                   EXCEPT !.health = health]
    /\ player_buffs = <<>>
    /\ player_debuffs = <<>>
    /\ call = NoCall
    /\ sessions = 1
    /\ enemy_calls = 0
    /\ enemy_turns = 0
    /\ trace = <<>>
    /\ OthersIdle

\* The (effect, duration) pairs the abilities hand to apply_effect: Poison
\* Bite, Charge and Bite.
EffectInputs == {<<"poison", 4>>, <<"stun", 1>>, <<"bleed", 2>>}

StatusInit ==
    /\ Started("goblin", 20, PlayerRecord(80, 50, 10, 0))
    /\ combat_system \in {"None", "bound"}

\* A caller invokes apply_effect(effect_name, target, duration).
ApplyEffect ==
    /\ Len(trace) < MaxStatusCalls
    /\ \E inp \in EffectInputs, who \in {"enemy", "player"} :
         \E m0 \in {Machine} :
           \E m \in {apply_effect(m0, inp[1], who, inp[2])} :
             DirectCall(m, Called("apply_effect", inp[1], inp[2], who))

\* A caller invokes enemy.process_status_effects().
Tick ==
    /\ Len(trace) < MaxStatusCalls
    /\ \E m0 \in {Machine} :
         \E m \in {process_status_effects(m0)} :
           DirectCall(m, Called("process_status_effects", "", 0, "enemy"))

\* A caller invokes process_enemy_turn(); the roll is the accuracy draw of
\* the ability the enemy would use.
EnemyTurn ==
    /\ Len(trace) < MaxStatusCalls
    /\ \E roll \in Rolls(AbilityOf(get_next_ability(enemy)).accuracy) :
         \E m0 \in {Machine} :
           \E m \in {process_enemy_turn(m0, roll)} :
             DirectCall(m, Called("process_enemy_turn", "", roll, "enemy"))

\* A caller invokes player_defend().
Defend ==
    /\ Len(trace) < MaxStatusCalls
    /\ \E m0 \in {Machine} :
         \E m \in {player_defend(m0)} :
           DirectCall(m, Called("player_defend", "", 0, "player"))

StatusNext ==
    \/ ApplyEffect
    \/ Tick
    \/ EnemyTurn
    \/ Defend

StatusSpec == StatusInit /\ [][StatusNext]_vars

\* Ability, damage and flee resolution called directly.  The players differ
\* in strength and speed: a weak slow one, the default one and a very fast
\* one.
AbilityPlayers ==
    {[PlayerRecord(80, 50, 1, 0) EXCEPT !.speed = 1],
     PlayerRecord(80, 50, 10, 0),
     [PlayerRecord(80, 50, 10, 0) EXCEPT !.speed = 1000]}

\* Abilities with and without damage, effect and lifesteal, physical and
\* not.
AbilityInputs == {"scratch", "bite", "web", "fire_breath", "life_drain", "howl"}

\* random.randint(1, 100): a roll every ability lands on and one only Howl
\* (accuracy 100) lands on.
AbilityRolls == {1, 91}

DamageInputs == {10, 25}
DamageTypeInputs == {"PHYSICAL", "FIRE", "POISON"}

\* floor(100 * random.random()): one on each side of the chances 10, 20, 50
\* and 70 percent.
UnitFleeDraws == {9, 10, 19, 20, 49, 50, 69, 70}

AbilityInit ==
    /\ \E enemy_type \in {"goblin", "troll"}, p \in AbilityPlayers :
         Started(enemy_type, enemy_types[enemy_type].base_health, p)
    /\ combat_system = "None"

\* A caller invokes use_ability(user, ability_name, target).
UseAbility ==
    /\ Len(trace) < MaxAbilityCalls
    /\ \E user \in {"enemy", "player"}, ability_name \in AbilityInputs,
          roll \in AbilityRolls :
         \E m0 \in {Machine} :
           \E m \in {use_ability(m0, user, ability_name, roll)} :
             DirectCall(m, Called("use_ability", ability_name, roll, user))

\* A caller invokes enemy.take_damage(amount, damage_type).
TakeDamage ==
    /\ Len(trace) < MaxAbilityCalls
    /\ \E amount \in DamageInputs, damage_type \in DamageTypeInputs :
         \E m0 \in {Machine} :
           \E m \in {[m0 EXCEPT !.enemy = take_damage(@, amount, damage_type)]} :
             DirectCall(m, Called("take_damage", damage_type, amount, "enemy"))

\* A caller invokes player_flee().
Flee ==
    /\ Len(trace) < MaxAbilityCalls
    /\ \E draw \in UnitFleeDraws :
         \E m0 \in {Machine} :
           \E m \in {player_flee(m0, draw)} :
             DirectCall(m, Called("player_flee", "", draw, "player"))

AbilityNext ==
    \/ UseAbility
    \/ TakeDamage
    \/ Flee

AbilitySpec == AbilityInit /\ [][AbilityNext]_vars

\* The combat log written to directly.
LogMessages == {"hit", "miss"}

LogInit ==
    /\ Started("goblin", enemy_types["goblin"].base_health,
               PlayerRecord(80, 50, 10, 0))
    /\ combat_system = "None"

\* A caller invokes add_to_log(message).
AddToLog ==
    /\ Len(trace) < MaxAppends
    /\ \E message \in LogMessages :
         \E m0 \in {Machine} :
           \E m \in {add_to_log(m0, message)} :
             DirectCall(m, Called("add_to_log", message, 0, ""))

LogNext == AddToLog

LogSpec == LogInit /\ [][LogNext]_vars

\* The quest engine driven by its callers.  Two quests generate_quest
\* produced at MEDIUM difficulty: a kill quest (kill_basic template: no
\* 'boss' key) and a boss quest (kill_boss template: 'boss': True, count 1).
GeneratedQuests ==
    <<[id |-> "q1", giver |-> "Elder", status |-> "AVAILABLE",
       objectives |-> <<[type |-> "kill", target |-> "Wolves", count |-> 2,
                         current |-> 0, boss |-> FALSE]>>,
       rewards |-> [gold |-> 80, xp |-> 100, items |-> <<"steel_sword">>,
                    reputation |-> [townsfolk |-> 10, guild |-> 10]]],
      [id |-> "q2", giver |-> "Captain", status |-> "AVAILABLE",
       objectives |-> <<[type |-> "kill", target |-> "Troll King", count |-> 1,
                         current |-> 0, boss |-> TRUE]>>,
       rewards |-> [gold |-> 160, xp |-> 200, items |-> <<>>,
                    reputation |-> [townsfolk |-> 10, guild |-> 10]]]>>

QuestIdInputs == {"q1", "q2", "q9"}
NpcInputs == {"Elder", "Captain"}
KillInputs == {"Wolves", "Troll King"}
BonusGoldDraws == {0, 20}

QuestInit ==
    /\ state = "ACTIVE"
    /\ turn_count = 0
    /\ combat_log = <<>>
    /\ player = PlayerRecord(80, 50, 10, 0)
    /\ enemy = NoEnemy
    /\ player_buffs = <<>>
    /\ player_debuffs = <<>>
    /\ combat_system = "None"
    /\ call = NoCall
    /\ sessions = 0
    /\ enemy_calls = 0
    /\ enemy_turns = 0
    /\ trace = <<>>
    /\ quest_manager = [NoQuests EXCEPT !.quests = GeneratedQuests]
    /\ quest_call = [NoQuestCall EXCEPT !.granted = <<0, 0>>]
    /\ world = NoWorld
    /\ world_pc = NoWorldPc

\* Writes a finished QuestManager call back.
QuestCommit(qm, op, id, npc) ==
    /\ quest_manager' = [quests |-> qm.quests,
                         available_quests |-> qm.available_quests,
                         active_quests |-> qm.active_quests,
                         completed_quests |-> qm.completed_quests,
                         failed_quests |-> qm.failed_quests,
                         quest_log |-> qm.quest_log,
                         reputation |-> qm.reputation]
    /\ player' = qm.player
    /\ quest_call' = [op |-> op, id |-> id, npc |-> npc, ret |-> qm.ret,
                      turned |-> qm.turned, n |-> quest_call.n + 1,
                      granted |-> IF qm.turned = 0 THEN quest_call.granted
                                  ELSE [quest_call.granted
                                          EXCEPT ![qm.turned] = @ + 1]]
    /\ UNCHANGED <<state, turn_count, combat_log, enemy, player_buffs,
                   player_debuffs, combat_system, call, sessions, enemy_calls,
                   enemy_turns, trace, world, world_pc>>

\* An NPC offers a quest: offer_quest(quest, npc_name).
OfferQuest ==
    /\ quest_call.n < MaxQuestCalls
    /\ \E q \in 1..Len(quest_manager.quests), npc \in NpcInputs :
         \E qm0 \in {QuestMachine} :
           \E qm \in {offer_quest(qm0, q, npc)} :
             QuestCommit(qm, "offer_quest", qm0.quests[q].id, npc)

\* A caller invokes accept_quest(quest_id).
AcceptQuest ==
    /\ quest_call.n < MaxQuestCalls
    /\ \E quest_id \in QuestIdInputs :
         \E qm0 \in {QuestMachine} :
           \E qm \in {accept_quest(qm0, quest_id)} :
             QuestCommit(qm, "accept_quest", quest_id, "")

\* A caller invokes update_quest_progress('kill', target).
UpdateQuestProgress ==
    /\ quest_call.n < MaxQuestCalls
    /\ \E target \in KillInputs :
         \E qm0 \in {QuestMachine} :
           \E qm \in {update_quest_progress(qm0, "kill", target)} :
             QuestCommit(qm, "update_quest_progress", target, "")

\* A caller invokes turn_in_quest(quest_id, npc_name).
TurnInQuest ==
    /\ quest_call.n < MaxQuestCalls
    /\ \E quest_id \in QuestIdInputs, npc \in NpcInputs,
          bonus_gold \in BonusGoldDraws :
         \E qm0 \in {QuestMachine} :
           \E qm \in {turn_in_quest(qm0, quest_id, npc, bonus_gold)} :
             QuestCommit(qm, "turn_in_quest", quest_id, npc)

\* A caller invokes fail_quest(quest_id).
FailQuest ==
    /\ quest_call.n < MaxQuestCalls
    /\ \E quest_id \in QuestIdInputs :
         \E qm0 \in {QuestMachine} :
           \E qm \in {fail_quest(qm0, quest_id)} :
             QuestCommit(qm, "fail_quest", quest_id, "")

QuestNext ==
    \/ OfferQuest
    \/ AcceptQuest
    \/ UpdateQuestProgress
    \/ TurnInQuest
    \/ FailQuest

QuestSpec == QuestInit /\ [][QuestNext]_vars

\* generate_world step by step: generate_region creates the locations of the
\* regions, then generate_dungeon creates the entrance of the first dungeon.
\* random.sample(possible_exits, random.randint(2, 4)), as a set.
ExitSamples == {e \in SUBSET Directions : Cardinality(e) >= 2}

WorldInit ==
    /\ state = "ACTIVE"
    /\ turn_count = 0
    /\ combat_log = <<>>
    /\ player = PlayerRecord(80, 50, 10, 0)
    /\ enemy = NoEnemy
    /\ player_buffs = <<>>
    /\ player_debuffs = <<>>
    /\ combat_system = "None"
    /\ call = NoCall
    /\ sessions = 0
    /\ enemy_calls = 0
    /\ enemy_turns = 0
    /\ trace = <<>>
    /\ quest_manager = NoQuests
    /\ quest_call = NoQuestCall
    /\ world = NoWorld
    /\ world_pc = NoWorldPc

WorldStep ==
    UNCHANGED <<state, turn_count, combat_log, player, enemy, player_buffs,
                player_debuffs, combat_system, call, sessions, enemy_calls,
                enemy_turns, trace, quest_manager, quest_call>>

\* generate_region creates one more location, of the type of the template
\* it drew, and the location enters self.world.
CreateLocation ==
    /\ world_pc.phase \in {"idle", "generating"}
    /\ Len(world) < MaxLocations
    /\ \E loc_type \in DescribedTypes, exits \in ExitSamples :
         \E r \in {create_location(loc_type, exits)} :
           world' = Append(world, r.location)
    /\ world_pc' = [world_pc EXCEPT !.phase = "generating"]
    /\ WorldStep

\* The regions are complete and generate_dungeon creates the entrance:
\* create_location(entrance_id, ..., 'dungeon', 'Dungeon').  An exception
\* leaves generate_world; otherwise the rooms of the dungeon follow.
GenerateDungeon ==
    /\ world_pc.phase = "generating"
    /\ Len(world) = MaxLocations
    /\ \E exits \in ExitSamples :
         \E r \in {create_location("dungeon", exits)} :
           IF r.exc # "none"
           THEN /\ world' = world
                /\ world_pc' = [world_pc EXCEPT !.phase = "raised",
                                                !.exc = r.exc]
           ELSE /\ world' = Append(world, r.location)
                /\ world_pc' = [world_pc EXCEPT !.phase = "dungeon"]
    /\ WorldStep

WorldNext ==
    \/ CreateLocation
    \/ GenerateDungeon

WorldSpec == WorldInit /\ [][WorldNext]_vars

\* create_connections called on a generator whose world holds locations
\* made by create_location.
\* The keys of the exits dict of the location create_connections stands at
\* that its inner loop has not visited yet.
Unvisited ==
    {d \in Directions :
        /\ world[world_pc.loc].exits[d] # Absent
        /\ d \notin world_pc.visited}

\* create_connections is entered: all_locations = list(self.world.keys()).
BeginConnections ==
    /\ world_pc.phase = "generating"
    /\ Len(world) = MaxLocations
    /\ world_pc' = [world_pc EXCEPT !.phase = "connecting", !.loc = 1,
                                    !.visited = {}]
    /\ UNCHANGED world
    /\ WorldStep

\* One round of the inner loop: the next key of the current location's
\* exits, with random.choice(possible_targets) when the exit is None.
ConnectExit ==
    /\ world_pc.phase = "connecting"
    /\ world_pc.loc <= Len(world)
    /\ \E direction \in Unvisited :
         /\ \E target \in (IF possible_targets(world, world_pc.loc, direction) = {}
                           THEN {0}
                           ELSE possible_targets(world, world_pc.loc, direction)) :
              world' = connect_exit(world, world_pc.loc, direction, target)
         /\ world_pc' = [world_pc EXCEPT !.visited = @ \cup {direction}]
    /\ WorldStep

\* The inner loop is through with the current location.
NextLocation ==
    /\ world_pc.phase = "connecting"
    /\ world_pc.loc <= Len(world)
    /\ Unvisited = {}
    /\ world_pc' = [world_pc EXCEPT !.loc = @ + 1, !.visited = {}]
    /\ UNCHANGED world
    /\ WorldStep

ConnectionsNext ==
    \/ CreateLocation
    \/ BeginConnections
    \/ ConnectExit
    \/ NextLocation

ConnectionsSpec == WorldInit /\ [][ConnectionsNext]_vars

\* Enemy.take_damage called directly with the same amount under different
\* damage types, as the damage-type test does; the value it returns is kept
\* in call.out.
HitAmounts == {1, 2, 20}
HitTypes == {"PHYSICAL", "HOLY", "POISON"}

DamageInit ==
    /\ \E enemy_type \in {"orc", "skeleton"} :
         Started(enemy_type, enemy_types[enemy_type].base_health,
                 PlayerRecord(80, 50, 10, 0))
    /\ combat_system = "None"

\* A caller invokes enemy.take_damage(amount, damage_type).
HitEnemy ==
    /\ Len(trace) < MaxDamageCalls
    /\ \E amount \in HitAmounts, damage_type \in HitTypes :
         \E m0 \in {Machine} :
           \E m \in {[m0 EXCEPT
                          !.enemy = take_damage(@, amount, damage_type),
                          !.out = <<FinalDamage(m0.enemy, amount, damage_type)>>]} :
             DirectCall(m, Called("take_damage", damage_type, amount, "enemy"))

DamageNext == HitEnemy

DamageSpec == DamageInit /\ [][DamageNext]_vars

\* Sessions in a row: the game loop starts a combat, feeds it actions
\* through process_turn, and starts the next combat on the same engine.
SessionInit == Init

\* The game loop invokes start_combat(enemy_type, enemy_level).
BeginCombat ==
    /\ Len(trace) < MaxSessionCalls
    /\ \E gold \in GoldDraws("goblin", 1) :
         \E m0 \in {Machine} :
           \E m \in {start_combat(m0, "goblin", 1, gold)} :
             DirectCall(m, Called("start_combat", "goblin", 1, ""))

\* The game loop invokes process_turn(action).
SessionTurn ==
    /\ Len(trace) < MaxSessionCalls
    /\ \E action \in TurnInputs :
         \E m0 \in {Machine} :
           \E d0 \in (IF state # "PLAYER_TURN" THEN {Draws(1, 0, 1, 1, 0, 1, {})}
                                               ELSE PreDraws(action, "None")) :
             \E d \in (IF state # "PLAYER_TURN" THEN {d0}
                        ELSE PostDraws(m0, action, "None", "None", d0)) :
               \E m \in {process_turn(m0, action, d)} :
                 DirectCall(m, Called("process_turn", action, 0, "player"))

SessionNext ==
    \/ BeginCombat
    \/ SessionTurn

SessionSpec == SessionInit /\ [][SessionNext]_vars

\* process_victory() called directly on a dead enemy, as the integration
\* test does.  The spawns differ in how far the XP reward overshoots the
\* level threshold.
VictorySpawns == {<<"goblin", 1>>, <<"troll", 1>>, <<"troll", 3>>}

VictoryInit ==
    /\ \E spawn \in VictorySpawns, p \in {PlayerRecord(80, 50, 10, 0),
                                           PlayerRecord(80, 10, 25, 90)} :
         \E gold \in GoldDraws(spawn[1], spawn[2]) :
           /\ player = p
           /\ enemy = [NewEnemy(spawn[1], spawn[2], gold) EXCEPT !.health = 0]
    /\ state = "PLAYER_TURN"
    /\ turn_count = 0
    /\ combat_log = <<"combat_started", "description">>
    /\ player_buffs = <<>>
    /\ player_debuffs = <<>>
    /\ combat_system = "None"
    /\ call = NoCall
    /\ sessions = 1
    /\ enemy_calls = 0
    /\ enemy_turns = 0
    /\ trace = <<>>
    /\ OthersIdle

\* A caller invokes process_victory().
ProcessVictory ==
    /\ Len(trace) < MaxVictoryCalls
    /\ \E loot \in SUBSET (1..Len(enemy_types[enemy.type].loot_table)) :
         \E m0 \in {Machine} :
           \E m \in {process_victory(m0, loot)} :
             DirectCall(m, Called("process_victory", "", 0, ""))

VictoryNext == ProcessVictory

VictorySpec == VictoryInit /\ [][VictoryNext]_vars

\* player_ability, player_use_item, process_victory and Enemy.heal called
\* directly, by a player who knows the five abilities of get_player_ability
\* and Life Drain and carries one of each potion and a bomb; health and mana
\* vary.
PlayerActionInit ==
    /\ \E enemy_type \in {"goblin", "troll"}, health \in {60, 80},
          mana \in {10, 30} :
         Started(enemy_type, enemy_types[enemy_type].base_health,
                 [PlayerRecord(health, mana, 10, 0) EXCEPT
                     !.abilities = <<"power_attack", "quick_strike",
                                     "shield_bash", "healing_light",
                                     "fireball", "life_drain">>,
                     !.inventory = <<"health_potion", "mana_potion", "bomb">>])
    /\ combat_system = "None"

\* A caller invokes player_ability(ability_name); "smite" is an ability the
\* player does not have.  The rolls are one every ability lands on and one
\* that only an accuracy above 90 (Quick Strike's 95) lands on.
PlayerAbility ==
    /\ Len(trace) < MaxPlayerCalls
    /\ \E ability_name \in PlayerAbilityNames \cup {"life_drain", "smite"},
          roll \in {1, 91} :
         \E m0 \in {Machine} :
           \E m \in {player_ability(m0, ability_name, roll)} :
             DirectCall(m, Called("player_ability", ability_name, roll, "player"))

\* A caller invokes player_use_item(item_name); "elixir" is an item the
\* player does not have.
PlayerUseItem ==
    /\ Len(trace) < MaxPlayerCalls
    /\ \E item_name \in {"health_potion", "mana_potion", "bomb", "elixir"} :
         \E m0 \in {Machine} :
           \E m \in {player_use_item(m0, item_name)} :
             DirectCall(m, Called("player_use_item", item_name, 0, "player"))

\* A caller invokes enemy.heal(amount).
Heal ==
    /\ Len(trace) < MaxPlayerCalls
    /\ \E amount \in {5, 200} :
         \E m0 \in {Machine} :
           \E m \in {[m0 EXCEPT !.enemy = heal(@, amount)]} :
             DirectCall(m, Called("heal", "", amount, "enemy"))

PlayerActionNext ==
    \/ PlayerAbility
    \/ PlayerUseItem
    \/ ProcessVictory
    \/ Heal

PlayerActionSpec == PlayerActionInit /\ [][PlayerActionNext]_vars

-----------------------------------------------------------------------------
(* Properties.                                                             *)

PlayerTurnCalls == {"process_player_turn", "process_turn"}
Terminal == {"VICTORY", "DEFEAT", "FLEE"}
ResourceFailures == {"no_such_ability", "not_enough_mana", "no_such_item"}

\* The xp of record q is the xp of record p plus reward, less the old
\* threshold when a level was gained in between.
XpGranted(p, q, reward) ==
    q.xp + (IF q.level > p.level THEN p.xp_to_next ELSE 0) = p.xp + reward

\* C1: when process_player_turn has resolved a valid action in PLAYER_TURN
\* and the enemy turn that followed left both combatants alive, the state is
\* PLAYER_TURN again at the return, so the next call is accepted.
C1_TurnReturnsToPlayer ==
    ( /\ call.op = "process_player_turn"
      /\ call.pre_state = "PLAYER_TURN"
      /\ call.valid
      /\ call.exc = "none"
      /\ call.eturns > 0
      /\ is_alive(enemy)
      /\ player.health > 0 )
    => state = "PLAYER_TURN"

\* C2: a successful flee returns with state FLEE, with no enemy turn and no
\* turn_count increment in that call; a failed flee is followed by exactly
\* one enemy turn in the same call.
C2_FleeOutcome ==
    ( /\ call.op = "process_player_turn"
      /\ call.pre_state = "PLAYER_TURN"
      /\ call.exc = "none"
      /\ call.out # <<>> )
    => /\ call.out[1] = "flee_success"
          => (state = "FLEE" /\ call.eturns = 0 /\ turn_count = call.pre_turn)
       /\ call.out[1] = "flee_failed" => call.eturns = 1

\* C3: no combat operation raises: every process_player_turn, process_turn
\* and process_enemy_turn call made once combat has started returns.
C3_NoCallRaises ==
    ( /\ call.op \in PlayerTurnCalls \cup {"process_enemy_turn"}
      /\ enemy # NoEnemy )
    => call.exc = "none"

\* C4: when the enemy's health is <= 0 once the player's action is resolved,
\* the same call sets VICTORY, grants the rewards and returns, without an
\* enemy turn and without incrementing turn_count.
C4_VictoryShortCircuits ==
    [][ (call'.op \in PlayerTurnCalls /\ call'.kill)
        => /\ call'.exc = "none"
           /\ state' = "VICTORY"
           /\ call'.eturns = 0
           /\ turn_count' = turn_count
           /\ player'.gold = player.gold + enemy.gold_reward
           /\ XpGranted(player, player', enemy.xp_reward)
           /\ call'.out[Len(call'.out)] = "victory" ]_vars

C4_Witness ==
    /\ call.op = "process_player_turn"
    /\ call.kill
    /\ state = "VICTORY"

\* C5: within a session the enemy's xp_reward and gold_reward are added to
\* the player record by the call that reaches VICTORY and by no other
\* process_player_turn / process_turn call.
C5_RewardsGrantedOnce ==
    [][ call'.op \in PlayerTurnCalls
        => IF state # "VICTORY" /\ state' = "VICTORY"
           THEN /\ player'.gold = player.gold + enemy.gold_reward
                /\ XpGranted(player, player', enemy.xp_reward)
           ELSE /\ player'.gold = player.gold
                /\ player'.xp = player.xp ]_vars

C5_Witness ==
    /\ call.op = "process_turn"
    /\ call.pre_state = "VICTORY"
    /\ state = "VICTORY"

C7_RejectedOutOfTurn ==
    [][ /\ (call'.op \in PlayerTurnCalls /\ state \in Terminal \cup {"ENEMY_TURN"})
           => /\ call'.exc = "none"
              /\ call'.out \in {<<"not_your_turn">>, <<"not_in_combat">>,
                                <<"wait_for_your_turn">>}
              /\ call'.op = "process_player_turn" => call'.out = <<"not_your_turn">>
              /\ UNCHANGED <<state, turn_count, player, enemy>>
        /\ (state \in Terminal /\ call'.op # "start_combat")
           => state' = state ]_vars

C7_Witness ==
    /\ call.op = "process_player_turn"
    /\ call.pre_state = "VICTORY"
    /\ call.out = <<"not_your_turn">>

\* C8: a player action that fails for a resource reason (unknown ability,
\* not enough mana, item not in the inventory) mutates nothing: the state
\* stays PLAYER_TURN, turn_count is unchanged, no enemy turn is taken and
\* the player and the enemy are unchanged.
C8_ResourceFailureNoMutation ==
    [][ ( /\ call'.op = "process_player_turn"
          /\ state = "PLAYER_TURN"
          /\ call'.exc = "none"
          /\ call'.out # <<>>
          /\ call'.out[1] \in ResourceFailures )
        => /\ state' = "PLAYER_TURN"
           /\ turn_count' = turn_count
           /\ call'.eturns = 0
           /\ UNCHANGED <<player, enemy>> ]_vars

\* C9: process_player_turn called in PLAYER_TURN with an action outside the
\* five combat actions returns the invalid-action message and changes
\* nothing; no enemy turn is taken.
C9_InvalidActionNoMutation ==
    [][ ( /\ call'.op = "process_player_turn"
          /\ state = "PLAYER_TURN"
          /\ ~call'.valid )
        => /\ call'.exc = "none"
           /\ call'.out = <<"invalid_action">>
           /\ call'.eturns = 0
           /\ UNCHANGED <<state, turn_count, combat_log, player, enemy,
                          player_buffs, player_debuffs>> ]_vars

C9_Witness ==
    /\ call.op = "process_player_turn"
    /\ call.pre_state = "PLAYER_TURN"
    /\ ~call.valid
    /\ call.out = <<"invalid_action">>

\* C10: when the player's health is <= 0 after the enemy turn of a call, the
\* call returns with state DEFEAT; from then on no call of the session
\* changes the player's health, gold, xp or inventory.
C10_DefeatIsFinal ==
    [][ /\ ( /\ call'.op \in PlayerTurnCalls
             /\ state = "PLAYER_TURN"
             /\ call'.exc = "none"
             /\ call'.eturns > 0
             /\ player'.health <= 0 )
           => state' = "DEFEAT"
        /\ (state = "DEFEAT" /\ call'.op # "start_combat")
           => /\ player'.health = player.health
              /\ player'.gold = player.gold
              /\ player'.xp = player.xp
              /\ player'.inventory = player.inventory ]_vars

C10_Witness ==
    /\ state = "DEFEAT"
    /\ call.pre_state = "DEFEAT"
    /\ player.health <= 0

CountOf(list, name) == Cardinality({i \in 1..Len(list) : list[i].name = name})

\* Poison of duration 4 applied to the enemy, then k status ticks.
PoisonThenTicks(k) ==
    <<Called("apply_effect", "poison", 4, "enemy")>>
      \o [i \in 1..k |-> Called("process_status_effects", "", 0, "enemy")]

C14_StackingRespected ==
    \A name \in StatusNames :
      LET limit == IF status_effects[name].stack
                   THEN status_effects[name].max_stacks ELSE 1
      IN  /\ enemy # NoEnemy => CountOf(enemy.status_effects, name) <= limit
          /\ CountOf(player_debuffs, name) <= limit

\* The player health a landing hit of the enemy's ability removes, given
\* the buffs the player carries.
HealthLostToHit(buffs, ability_name) ==
    player.health
      - use_ability([Machine EXCEPT !.player_buffs = buffs],
                    "enemy", ability_name, 1).player.health

\* C15: once the player has defended, a physical enemy hit that lands
\* removes strictly less player health than the same hit removes from the
\* same player without the defend buff.
C15_DefendReducesDamage ==
    ( /\ enemy # NoEnemy
      /\ is_alive(enemy)
      /\ \E i \in 1..Len(player_buffs) : player_buffs[i].name = "defending" )
    => \A ability_name \in {"scratch", "bite", "cleave"} :
         HealthLostToHit(player_buffs, ability_name)
           < HealthLostToHit(<<>>, ability_name)

\* C16: when the player uses a physical ability with damage multiplier > 0
\* on the enemy, with strength >= 1 and the accuracy roll a success, the
\* enemy's health goes down by at least 1 whatever its defense.  (Stated
\* for the direction in which the target has a take_damage method.)
C16_PhysicalHitDealsDamage ==
    [][ ( /\ Len(trace') > Len(trace)
          /\ LET e == trace'[Len(trace')]
             IN  /\ e.op = "use_ability"
                 /\ e.who = "player"
                 /\ AbilityOf(e.name).damage_type = "physical"
                 /\ AbilityOf(e.name).damage_mult > 0
                 /\ e.n <= AbilityOf(e.name).accuracy
          /\ player.strength >= 1 )
        => enemy'.health <= enemy.health - 1 ]_vars

\* C17: a use_ability call whose accuracy roll misses returns the miss
\* message and leaves both combatants' health, status lists and buff and
\* debuff lists as they were.
C17_MissChangesNothing ==
    [][ ( /\ Len(trace') > Len(trace)
          /\ trace'[Len(trace')].op = "use_ability"
          /\ trace'[Len(trace')].n > AbilityOf(trace'[Len(trace')].name).accuracy )
        => /\ call'.exc = "none"
           /\ LET e == trace'[Len(trace')]
              IN  use_ability(Machine, e.who, e.name, e.n).res
                    \in {"enemy_ability_misses", "your_ability_misses"}
           /\ UNCHANGED <<player, enemy, player_buffs, player_debuffs>> ]_vars

C17_Witness ==
    /\ trace # <<>>
    /\ trace[Len(trace)].op = "use_ability"
    /\ trace[Len(trace)].name = "bite"
    /\ trace[Len(trace)].n > AbilityOf("bite").accuracy
    /\ call.op = "use_ability"

\* C18: when both the resistance map and the weakness map of the enemy hold
\* the incoming damage type, take_damage removes the amount scaled by the
\* product of the two multipliers, truncated, then reduced by defense for
\* physical damage (never below 1).
C18_ResistanceTimesWeakness ==
    [][ ( /\ Len(trace') > Len(trace)
          /\ trace'[Len(trace')].op = "take_damage"
          /\ \E i \in 1..Len(enemy_types[enemy.type].resistances) :
                enemy_types[enemy.type].resistances[i].dtype
                  = DamageTypeValue(trace'[Len(trace')].name)
          /\ \E i \in 1..Len(enemy_types[enemy.type].weaknesses) :
                enemy_types[enemy.type].weaknesses[i].dtype
                  = DamageTypeValue(trace'[Len(trace')].name) )
        => LET e == trace'[Len(trace')]
               key == DamageTypeValue(e.name)
               product == Multiplier(enemy_types[enemy.type].resistances, key)
                            * Multiplier(enemy_types[enemy.type].weaknesses, key)
               scaled == (e.n * product) \div 100
           IN  enemy.health - enemy'.health =
                 IF e.name = "PHYSICAL" THEN Max(1, scaled - enemy.defense)
                 ELSE scaled ]_vars

C18_Witness ==
    /\ trace # <<>>
    /\ trace[Len(trace)] = Called("take_damage", "FIRE", 25, "enemy")
    /\ enemy.type = "troll"
    /\ enemy.health = enemy.max_health - 10

\* C19: player_flee succeeds exactly when its single draw is below
\* clamp(0.30 + 0.05 * (player speed - enemy speed), 0.10, 0.70): the chance
\* is 0.70 for a large positive differential and 0.10 for a large negative
\* one.  Chances and the draw are in percent.
C19_FleeChanceClamped ==
    [][ ( /\ Len(trace') > Len(trace)
          /\ trace'[Len(trace')].op = "player_flee" )
        => LET raw == 30 + 5 * (player.speed - enemy.speed)
               chance == IF raw > 70 THEN 70 ELSE IF raw < 10 THEN 10 ELSE raw
               fled == player_flee(Machine, trace'[Len(trace')].n).res
                         = "flee_success"
           IN  /\ fled <=> trace'[Len(trace')].n < chance
               /\ state' = IF fled THEN "FLEE" ELSE state ]_vars

C19_Witness ==
    /\ trace # <<>>
    /\ trace[Len(trace)] = Called("player_flee", "", 70, "player")
    /\ player.speed = 1000
    /\ state # "FLEE"

\* Every message appended to the log since start_combat emptied it: the two
\* start_combat writes, then the messages of the direct calls.
AppendedSoFar ==
    <<"combat_started", "description">> \o [i \in 1..Len(trace) |-> trace[i].name]

\* C20: the combat log holds at most 10 entries, and they are the most
\* recently appended messages in the order they were appended: once more
\* than 10 have been appended, the oldest are the ones gone.
C20_LogKeepsLastTen ==
    /\ Len(combat_log) <= 10
    /\ Len(combat_log) = Min(10, Len(AppendedSoFar))
    /\ combat_log = SubSeq(AppendedSoFar,
                           Len(AppendedSoFar) - Len(combat_log) + 1,
                           Len(AppendedSoFar))

C20_Witness ==
    /\ Len(trace) = 11
    /\ Len(combat_log) = 10
    /\ combat_log[1] = trace[2].name
    /\ trace[1].name # trace[2].name
    /\ combat_log[10] = trace[11].name

\* C21: a victory whose XP total reaches xp_to_next performs exactly one
\* level-up however far the total overshoots: level +1, xp less the old
\* threshold, threshold floor(old * 1.5), max_health +10 with health at the
\* new max_health, strength +2, defense +1; a victory whose total stays
\* below the threshold changes none of level, threshold, max_health, health,
\* strength and defense.
C21_OneLevelUpPerVictory ==
    [][ ( /\ Len(trace') > Len(trace)
          /\ trace'[Len(trace')].op = "process_victory" )
        => LET total == player.xp + enemy.xp_reward
           IN  IF total >= player.xp_to_next
               THEN /\ player'.level = player.level + 1
                    /\ player'.xp = total - player.xp_to_next
                    /\ 2 * player'.xp_to_next <= 3 * player.xp_to_next
                    /\ 3 * player.xp_to_next < 2 * (player'.xp_to_next + 1)
                    /\ player'.max_health = player.max_health + 10
                    /\ player'.health = player'.max_health
                    /\ player'.strength = player.strength + 2
                    /\ player'.defense = player.defense + 1
               ELSE /\ player'.xp = total
                    /\ player'.level = player.level
                    /\ player'.xp_to_next = player.xp_to_next
                    /\ player'.max_health = player.max_health
                    /\ player'.health = player.health
                    /\ player'.strength = player.strength
                    /\ player'.defense = player.defense ]_vars

\* A level-up has happened that left the XP at or above the new threshold,
\* and one whose new threshold was rounded down (225 * 1.5 = 337.5).
C21_Witness ==
    /\ trace # <<>>
    /\ trace[Len(trace)].op = "process_victory"
    /\ player.level = 4
    /\ player.xp_to_next = 337
    /\ player.xp >= player.xp_to_next

\* The level multiplier an enemy was created with.
LevelMult(e) == e.xp_reward \div enemy_types[e.type].xp_reward

C23_ReportedHealthNotNegative ==
    /\ \A i \in DOMAIN get_enemy_status(Machine) :
          get_enemy_status(Machine)[i] >= 0
    /\ \A i \in DOMAIN get_combat_status(Machine) :
          get_combat_status(Machine)[i] >= 0

\* C24: whatever the engine went through before, a start_combat call leaves
\* state PLAYER_TURN, turn count 0, an enemy at full health with pattern
\* index 0 and no status effects, a log holding only the two start entries,
\* and no player buff or debuff.  (Stated for a start_combat that follows a
\* call that returned normally.)
C24_FreshSession ==
    [][ ( /\ Len(trace') > Len(trace)
          /\ trace'[Len(trace')].op = "start_combat"
          /\ call.exc = "none" )
        => /\ call'.exc = "none"
           /\ state' = "PLAYER_TURN"
           /\ turn_count' = 0
           /\ enemy' # NoEnemy
           /\ enemy'.health = enemy'.max_health
           /\ enemy'.pattern_index = 0
           /\ enemy'.status_effects = <<>>
           /\ ~enemy'.stunned
           /\ combat_log' = <<"combat_started", "description">>
           /\ player_buffs' = <<>>
           /\ player_debuffs' = <<>> ]_vars

\* The call just made was process_player_turn('attack') in state
\* PLAYER_TURN and it returned; its first string tells hit from miss.
AttackReturned(first) ==
    /\ call'.op = "process_player_turn"
    /\ state = "PLAYER_TURN"
    /\ call'.exc = "none"
    /\ call'.out # <<>>
    /\ call'.out[1] = first

WeakToButPhysicallyResistant(e, damage_type) ==
    LET data == enemy_types[e.type]
        key == DamageTypeValue(damage_type)
    IN  /\ Multiplier(data.weaknesses, key) > 10
        /\ \A i \in 1..Len(data.resistances) : data.resistances[i].dtype # key
        /\ Multiplier(data.resistances, "physical") < 10

\* C26: on such an enemy, take_damage(a, T) right after
\* take_damage(a, PHYSICAL) with the same a >= 1 returns strictly more
\* than the physical call did, and lowers health by exactly what it
\* returns.
C26_WeaknessBeatsPhysical ==
    [][ ( /\ Len(trace') > Len(trace)
          /\ trace # <<>>
          /\ trace[Len(trace)].op = "take_damage"
          /\ trace[Len(trace)].name = "PHYSICAL"
          /\ trace'[Len(trace')].op = "take_damage"
          /\ trace'[Len(trace')].n = trace[Len(trace)].n
          /\ trace'[Len(trace')].n >= 1
          /\ WeakToButPhysicallyResistant(enemy, trace'[Len(trace')].name) )
        => /\ call'.out[1] > call.out[1]
           /\ enemy.health - enemy'.health = call'.out[1] ]_vars

\* How often the reference x occurs in list.
Occurrences(list, x) == Cardinality({i \in 1..Len(list) : list[i] = x})

\* C27: when update_quest_progress('kill', target) is called while a quest
\* with status ACTIVE (held once in active_quests) has a kill objective for
\* the target, then: if the call brings the objective's current count to at
\* least its required count, the quest's status is COMPLETED afterwards and
\* the call returns exactly one completion message; if the count stays
\* below, the call returns none and the status stays ACTIVE.
C27_KillObjectiveCompletes ==
    [][ quest_call'.op = "update_quest_progress"
        => \A q \in 1..Len(quest_manager.quests) :
             \A j \in 1..Len(quest_manager.quests[q].objectives) :
               ( /\ Occurrences(quest_manager.active_quests, q) = 1
                 /\ quest_manager.quests[q].status = "ACTIVE"
                 /\ quest_manager.quests[q].objectives[j].type = "kill"
                 /\ quest_manager.quests[q].objectives[j].target = quest_call'.id )
               => IF quest_manager'.quests[q].objectives[j].current
                       >= quest_manager.quests[q].objectives[j].count
                  THEN /\ quest_manager'.quests[q].status = "COMPLETED"
                       /\ Len(quest_call'.ret) = 1
                  ELSE /\ quest_manager'.quests[q].status = "ACTIVE"
                       /\ quest_call'.ret = <<>> ]_vars

\* The active quests a turn-in with this id and giver name addresses.
Addressed(quest_id, npc) ==
    {q \in 1..Len(quest_manager.quests) :
        /\ InSeq(q, quest_manager.active_quests)
        /\ quest_manager.quests[q].id = quest_id
        /\ quest_manager.quests[q].giver = npc}

\* C28: a turn_in_quest call changes the player or a quest list only when
\* the quest is in active_quests with status COMPLETED and the giver name
\* matches; it then moves the quest from active_quests to completed_quests;
\* over the whole run no quest's rewards are paid more than once; and a
\* turn-in of an ACTIVE or unknown quest changes no player field and no
\* list.
C28_RewardsAtMostOnce ==
    [][ quest_call'.op = "turn_in_quest"
        => LET quest_id == quest_call'.id
               npc == quest_call'.npc
               paid == quest_call'.turned
               lists == <<quest_manager.available_quests,
                          quest_manager.active_quests,
                          quest_manager.completed_quests>>
               lists_after == <<quest_manager'.available_quests,
                                quest_manager'.active_quests,
                                quest_manager'.completed_quests>>
           IN  /\ (player' # player \/ lists_after # lists)
                    => /\ paid \in Addressed(quest_id, npc)
                       /\ quest_manager.quests[paid].status = "COMPLETED"
               /\ paid # 0
                    => /\ quest_manager'.active_quests
                            = RemoveFirst(quest_manager.active_quests, paid)
                       /\ quest_manager'.completed_quests
                            = Append(quest_manager.completed_quests, paid)
               /\ \A q \in 1..Len(quest_call'.granted) :
                     quest_call'.granted[q] <= 1
               /\ ( \/ \A q \in 1..Len(quest_manager.quests) :
                          InSeq(q, quest_manager.active_quests)
                            => quest_manager.quests[q].id # quest_id
                    \/ \E q \in Addressed(quest_id, npc) :
                          quest_manager.quests[q].status = "ACTIVE" )
                    => player' = player /\ lists_after = lists ]_vars

\* C29: accept_quest(id) returns True exactly when a quest with that id is
\* in available_quests; it then removes that quest from available_quests,
\* sets its status to ACTIVE and appends it to active_quests.  Otherwise it
\* returns False and the quest objects and the three lists are as before.
C29_AcceptExactlyWhenAvailable ==
    [][ quest_call'.op = "accept_quest"
        => LET available == quest_manager.available_quests
               i == FirstById(QuestMachine, available, quest_call'.id)
           IN  IF i # 0
               THEN /\ quest_call'.ret = <<"True">>
                    /\ quest_manager'.available_quests
                         = RemoveFirst(available, available[i])
                    /\ ~InSeq(available[i], quest_manager'.available_quests)
                    /\ quest_manager'.quests[available[i]].status = "ACTIVE"
                    /\ quest_manager'.active_quests
                         = Append(quest_manager.active_quests, available[i])
                    /\ quest_manager'.completed_quests
                         = quest_manager.completed_quests
               ELSE /\ quest_call'.ret = <<"False">>
                    /\ quest_manager'.quests = quest_manager.quests
                    /\ quest_manager'.available_quests = available
                    /\ quest_manager'.active_quests
                         = quest_manager.active_quests
                    /\ quest_manager'.completed_quests
                         = quest_manager.completed_quests ]_vars

\* The boss quest has been offered and accepted: it has left
\* available_quests for active_quests.
C29_Witness ==
    /\ quest_call.op = "accept_quest"
    /\ quest_call.id = "q2"
    /\ quest_call.ret = <<"True">>
    /\ quest_manager.available_quests = <<>>
    /\ quest_manager.active_quests = <<2>>
    /\ quest_manager.quests[2].status = "ACTIVE"

\* Every exit of world w that leads somewhere leads to a location of w whose
\* exit in the opposite direction leads back.
Bidirectional(w) ==
    \A a \in 1..Len(w) : \A d \in Directions :
       w[a].exits[d] > 0
         => /\ w[a].exits[d] \in 1..Len(w)
            /\ w[w[a].exits[d]].exits[opposite_direction(d)] = a

\* create_connections taken by itself: at each of its steps every exit that
\* is not None leads to a location whose opposite exit leads back, and an
\* exit that has been set is not changed again.
create_connections_bidirectional ==
    [][ /\ Bidirectional(world')
        /\ \A a \in 1..Len(world) : \A d \in Directions :
              world[a].exits[d] > 0
                => world'[a].exits[d] = world[a].exits[d] ]_vars

\* C30: generate_world produces a world (it does not raise on the way), and
\* in that world every exit that is not None leads to a location of the
\* world whose exit in the opposite direction leads back.
C30_ProducedWorldBidirectional ==
    /\ world_pc.exc = "none"
    /\ Bidirectional(world)

\* The call this step made, when it is a direct call of op.
Calls(op) ==
    /\ Len(trace') > Len(trace)
    /\ trace'[Len(trace')].op = op

\* C31: a player_ability call with an ability of the player's catalog that
\* the player knows and can pay for is resolved with that ability's own
\* entry: it misses exactly when the roll exceeds the ability's accuracy,
\* and otherwise the enemy loses what floor(strength * the ability's
\* damage multiplier) of the ability's damage type comes to after
\* mitigation, and the ability's effect is on the enemy.
C31_AbilityUsesOwnEntry ==
    [][ ( /\ Calls("player_ability")
          /\ trace'[Len(trace')].name \in PlayerAbilityNames
          /\ InSeq(trace'[Len(trace')].name, player.abilities)
          /\ get_player_ability(trace'[Len(trace')].name).mana_cost <= player.mana )
        => LET e == trace'[Len(trace')]
               own == get_player_ability(e.name)
               damage == (player.strength * own.damage_mult) \div 10
           IN  IF e.n > own.accuracy
               THEN enemy' = enemy
               ELSE /\ enemy'.health =
                         enemy.health
                           - (IF damage > 0
                              THEN FinalDamage(enemy, damage,
                                               DamageTypeByName(own.damage_type))
                              ELSE 0)
                    /\ own.effect # ""
                         => \E i \in 1..Len(enemy'.status_effects) :
                               enemy'.status_effects[i].name = own.effect ]_vars

\* C32: a player_ability call is turned down, and changes nothing, when the
\* ability is not the player's or its mana cost exceeds the player's mana;
\* a call that is accepted lowers the mana by exactly the ability's cost;
\* and no step leaves the player's mana negative.
C32_ManaCostRespected ==
    [][ /\ player'.mana >= 0
        /\ Calls("player_ability")
             => LET e == trace'[Len(trace')]
                    cost == get_player_ability(e.name).mana_cost
                IN  IF ~InSeq(e.name, player.abilities) \/ cost > player.mana
                    THEN UNCHANGED <<player, enemy, combat_log, player_buffs,
                                     player_debuffs, state, turn_count>>
                    ELSE /\ player'.mana = player.mana - cost
                         /\ combat_log' # combat_log ]_vars

\* Healing Light (cost 10) was accepted with exactly 10 mana and left 0, and
\* Quick Strike (cost 3) was then turned down.
C32_Witness ==
    /\ Len(trace) = 2
    /\ trace[1].op = "player_ability" /\ trace[1].name = "healing_light"
    /\ trace[2].op = "player_ability" /\ trace[2].name = "quick_strike"
    /\ player.mana = 0
    /\ Len(combat_log) = 3

\* C33: a player_use_item call with an item the player holds, once it has
\* returned, has removed one unit of the item and nothing else from the
\* inventory and has applied the item's effects: the health potion raised
\* health by min(30, max_health - health), the mana potion raised mana by
\* 20, the bomb took 25 fire damage, after mitigation, off the enemy.
C33_ItemEffectsApplied ==
    [][ ( /\ Calls("player_use_item")
          /\ InSeq(trace'[Len(trace')].name, player.inventory)
          /\ call'.exc = "none" )
        => LET item_name == trace'[Len(trace')].name
           IN  /\ player'.inventory = RemoveFirst(player.inventory, item_name)
               /\ player'.health <= player'.max_health
               /\ item_name = "health_potion"
                    => player'.health =
                         player.health
                           + Min(30, player.max_health - player.health)
               /\ item_name = "mana_potion"
                    => player'.mana = player.mana + 20
               /\ item_name = "bomb"
                    => enemy'.health =
                         enemy.health - FinalDamage(enemy, 25, "FIRE") ]_vars

\* What a list of timed entries is after one tick: every duration one
\* lower, the entries that reached 0 gone.
Ticked(list) ==
    SelectSeq([i \in 1..Len(list) |-> [list[i] EXCEPT !.duration = @ - 1]],
              LAMBDA entry : entry.duration > 0)

EnemyTurnsAfter(k) ==
    Cardinality({j \in (k + 1)..Len(trace) :
                    trace[j].op = "process_enemy_turn"})

\* C36: the buff list holds no more entries than player_defend calls that
\* fewer than 2 enemy turns have followed, and the debuff list no more than
\* apply_effect calls on the player that fewer enemy turns than their
\* duration have followed: an entry is gone once its duration has elapsed.
C36_PlayerModifiersExpire ==
    call.exc = "none"
      => /\ Len(player_buffs)
              <= Cardinality({k \in 1..Len(trace) :
                                 /\ trace[k].op = "player_defend"
                                 /\ EnemyTurnsAfter(k) < 2})
         /\ Len(player_debuffs)
              <= Cardinality({k \in 1..Len(trace) :
                                 /\ trace[k].op = "apply_effect"
                                 /\ trace[k].who = "player"
                                 /\ EnemyTurnsAfter(k) < trace[k].n})

C38_HealthWithinMaximum ==
    enemy # NoEnemy
      => /\ enemy.health <= enemy.max_health
         /\ player.health <= player.max_health

\* The enemy was hurt and then healed by 200, and the player at 80 of 100
\* health drank the 30-point potion: both stand exactly at their maximum.
C38_Witness ==
    /\ Len(trace) = 3
    /\ trace[1].op = "player_ability"
    /\ trace[2].op = "heal" /\ trace[2].n = 200
    /\ trace[3].op = "player_use_item" /\ trace[3].name = "health_potion"
    /\ call.exc = "none"
    /\ enemy.health = enemy.max_health
    /\ player.health = 100
    /\ player.max_health = 100


\* The number of the four quest lists that hold the quest q.
ListsHolding(q) ==
    Cardinality({l \in {"available_quests", "active_quests",
                        "completed_quests", "failed_quests"} :
                   InSeq(q, quest_manager[l])})

\* C39: after any sequence of offer_quest, accept_quest,
\* update_quest_progress, turn_in_quest and fail_quest calls, each quest is
\* in at most one of available_quests, active_quests, completed_quests and
\* failed_quests, and its status matches its list: AVAILABLE in available,
\* ACTIVE or COMPLETED in active, TURNED_IN in completed, FAILED in failed.
C39_QuestInOneListWithItsStatus ==
    \A q \in DOMAIN quest_manager.quests :
      /\ ListsHolding(q) <= 1
      /\ InSeq(q, quest_manager.available_quests)
            => quest_manager.quests[q].status = "AVAILABLE"
      /\ InSeq(q, quest_manager.active_quests)
            => quest_manager.quests[q].status \in {"ACTIVE", "COMPLETED"}
      /\ InSeq(q, quest_manager.completed_quests)
            => quest_manager.quests[q].status = "TURNED_IN"
      /\ InSeq(q, quest_manager.failed_quests)
            => quest_manager.quests[q].status = "FAILED"

====
